---- MODULE Spec2Model ----
(***************************************************************************)
(* Habit-Diary: the habit analytics and streak engine (lib/utils.ts), the  *)
(* storage adapters (lib/localStorage.ts, lib/firebase.ts), the context    *)
(* that joins them (context/HabitContext.tsx) and the tracker's write path *)
(* (components/TrackerView.tsx).                                           *)
(*                                                                         *)
(* Representation.                                                         *)
(*  - A Date object at local midnight is its day number, counted from      *)
(*    1970-01-01. A 'yyyy-MM-dd' string is the triple <<y, m, d>>;         *)
(*    formatDate and parseISO convert between the two with the civil       *)
(*    calendar, and JavaScript's string comparison of two such strings is  *)
(*    the lexicographic comparison of the triples (StrLess).               *)
(*  - An instant is [day, minute]: the local calendar day and the minute   *)
(*    of that day. toISOString() timestamps are kept as instants.          *)
(*  - Entry values and goals are integers. In the streak calculators the   *)
(*    floating-point comparisons of the code (v >= g * 0.8,                *)
(*    t - (g / 7) * d >= 0) are written as the exact rational comparisons  *)
(*    (5 * v >= 4 * g, 7 * t >= g * d), which decide alike on the goals    *)
(*    used there.  The weekly statistics are computed in binary64, as      *)
(*    JavaScript does, because their results depend on its rounding; in    *)
(*    SpecTyped the entry values are binary64 Numbers themselves (tenths,  *)
(*    as parseFloat gives them).                                           *)
(*  - An optional field that is absent holds Undefined.                    *)
(***************************************************************************)
EXTENDS Integers, Sequences, FiniteSets, TLC

VARIABLES
    now,                 \* the system clock, read by new Date()
    isFirebaseConfigured,\* firebase.ts: isFirebaseConfigured
    currentUserId,       \* HabitProvider state
    localData,           \* localStorage[STORAGE_KEY]: [habits, entries]
    userEntries,         \* Firestore users/{uid}/entries: doc id -> data
    userHabits,          \* Firestore users/{uid}/habits: doc id -> data
    habits,              \* HabitProvider state: habits
    allEntries,          \* HabitProvider state: allEntries
    pendingValues,       \* TrackerView state: key -> typed text
    enabledCells,        \* TrackerView: the dates whose cells the last render left enabled
    viewingUserId,       \* HabitProvider state: the user whose dashboard is shown
    friendHabits,        \* Firestore users/{friend}/habits: doc id -> data
    friendEntries,       \* Firestore users/{friend}/entries: doc id -> data
    inFlight,            \* the updateEntry calls that have begun, each with its position
    out                  \* the value returned, or the error thrown, by the last call

vars == <<now, isFirebaseConfigured, currentUserId, localData, userEntries,
          userHabits, habits, allEntries, pendingValues, enabledCells,
          viewingUserId, friendHabits, friendEntries, inFlight, out>>

----------------------------------------------------------------------------
(* Bounds of the model *)

\* entries handed to a calculator in one call
MaxEntries == 3

\* days the clock advances over in the store machine

\* entries held by one store
MaxStored == 2

Undefined == 0 - 1
NoUser == "null"

----------------------------------------------------------------------------
(* Calendar: date-fns format / parseISO / startOfWeek / subDays            *)

Max2(a, b) == IF a >= b THEN a ELSE b

\* format(date, 'yyyy-MM-dd'): the civil date of a day number
formatDate(n) ==
    LET z   == n + 719468
        era == z \div 146097
        doe == z - era * 146097
        yoe == (doe - doe \div 1460 + doe \div 36524 - doe \div 146096) \div 365
        doy == doe - (365 * yoe + yoe \div 4 - yoe \div 100)
        mp  == (5 * doy + 2) \div 153
        d   == doy - (153 * mp + 2) \div 5 + 1
        m   == IF mp < 10 THEN mp + 3 ELSE mp - 9
        y   == yoe + era * 400 + (IF m <= 2 THEN 1 ELSE 0)
    IN  <<y, m, d>>

\* parseISO('yyyy-MM-dd'): local midnight of that civil date
parseISO(s) ==
    LET y   == IF s[2] <= 2 THEN s[1] - 1 ELSE s[1]
        era == y \div 400
        yoe == y - era * 400
        mp  == IF s[2] > 2 THEN s[2] - 3 ELSE s[2] + 9
        doy == (153 * mp + 2) \div 5 + s[3] - 1
        doe == yoe * 365 + yoe \div 4 - yoe \div 100 + doy
    IN  era * 146097 + doe - 719468

\* a < b on 'yyyy-MM-dd' strings
StrLess(a, b) ==
    \/ a[1] < b[1]
    \/ a[1] = b[1] /\ a[2] < b[2]
    \/ a[1] = b[1] /\ a[2] = b[2] /\ a[3] < b[3]

\* startOfWeek(date, { weekStartsOn: 1 }): 1970-01-01 was a Thursday
getWeekStart(n) == n - ((n + 3) % 7)

getWeekEnd(n) == getWeekStart(n) + 6

subDays(n, k) == n - k

addDays(n, k) == n + k

subWeeks(n, k) == n - 7 * k

differenceInDays(a, b) == a - b

\* Date.getHours()
getHours(t) == t.minute \div 60

\* Array.prototype.sort() on a set of date strings, ascending
RECURSIVE SortStrings(_)
SortStrings(S) ==
    IF S = {} THEN << >>
    ELSE LET m == CHOOSE x \in S : \A y \in S : ~StrLess(y, x)
         IN  <<m>> \o SortStrings(S \ {m})

\* a collection keyed by document id (a Firestore collection, a JS object)
EmptyMap == [x \in {} |-> x]

Put(m, k, v) == [x \in DOMAIN m \cup {k} |-> IF x = k THEN v ELSE m[x]]

Remove(m, K) == [x \in DOMAIN m \ K |-> m[x]]

----------------------------------------------------------------------------
(* Edit-window gate *)

\* mutant: the grace period lasts through the hour of 6
isDateEditable_ThroughSix(dateStr) ==
    LET today         == formatDate(now.day)
        targetDateStr == formatDate(parseISO(dateStr))
        yesterday     == formatDate(subDays(now.day, 1))
    IN  IF StrLess(today, targetDateStr) THEN FALSE
        ELSE IF targetDateStr = today THEN TRUE
        ELSE IF targetDateStr = yesterday THEN getHours(now) <= 6
        ELSE FALSE

\* mutant: yesterday opens again in the last hour of the day
isDateEditable_LateReopen(dateStr) ==
    LET today         == formatDate(now.day)
        targetDateStr == formatDate(parseISO(dateStr))
        yesterday     == formatDate(subDays(now.day, 1))
    IN  IF StrLess(today, targetDateStr) THEN FALSE
        ELSE IF targetDateStr = today THEN TRUE
        ELSE IF targetDateStr = yesterday THEN getHours(now) < 6 \/ getHours(now) >= 23
        ELSE FALSE

isDateEditable(dateStr) ==
    LET today         == formatDate(now.day)
        targetDateStr == formatDate(parseISO(dateStr))
        yesterday     == formatDate(subDays(now.day, 1))
    IN  IF StrLess(today, targetDateStr) THEN FALSE
        ELSE IF targetDateStr = today THEN TRUE
        ELSE IF targetDateStr = yesterday THEN getHours(now) < 6
        ELSE FALSE

----------------------------------------------------------------------------
(* Goal resolution.  A daily goal is the fraction num / den.               *)

\* mutant: the stored snapshot is ignored
getEffectiveDailyGoal_NoSnapshot(entry, habit) ==
    IF habit.type = "binary"
    THEN [num |-> 1, den |-> 1]
    ELSE [num |-> habit.weeklyGoal, den |-> 7]

getEffectiveDailyGoal(entry, habit) ==
    IF entry.targetAtEntry # Undefined
    THEN [num |-> entry.targetAtEntry, den |-> 1]
    ELSE IF habit.type = "binary"
         THEN [num |-> 1, den |-> 1]
         ELSE [num |-> habit.weeklyGoal, den |-> 7]

isEntryComplete(entry, habit) ==
    LET dailyGoal == getEffectiveDailyGoal(entry, habit)
        value     == entry.value
    IN  IF habit.type = "binary"
        THEN value >= 1
        ELSE 5 * value * dailyGoal.den >= 4 * dailyGoal.num

----------------------------------------------------------------------------
(* Per-habit daily streak (calculateHabitStreak) *)

Indices(entries, habitId) ==
    {i \in DOMAIN entries : entries[i].habitId = habitId}

\* the dates on which the habit's entry is complete
successDates(habitId, habit, entries) ==
    {entries[i].date : i \in {j \in Indices(entries, habitId) :
                                   isEntryComplete(entries[j], habit)}}

\* while (successDates.has(formatDate(checkDate))) { currentStreak++; checkDate-- }
RECURSIVE CountBackward(_, _)
CountBackward(S, checkDate) ==
    IF formatDate(checkDate) \in S
    THEN 1 + CountBackward(S, addDays(checkDate, 0 - 1))
    ELSE 0

\* mutant: the count always starts at today
habitCurrentStreak_TodayOnly(S) == CountBackward(S, now.day)

habitCurrentStreak(S) ==
    LET today        == now.day
        todayStr     == formatDate(today)
        yesterdayStr == formatDate(addDays(today, 0 - 1))
    IN  IF todayStr \notin S /\ yesterdayStr \notin S
        THEN 0
        ELSE CountBackward(S, IF todayStr \notin S
                              THEN addDays(today, 0 - 1) ELSE today)

\* the loop over sortedDates[1..], counting in steps of `unit` runs of
\* neighbours exactly `gap` days apart
RECURSIVE RunLoop(_, _, _, _, _, _)
RunLoop(sorted, i, tempStreak, maxStreak, gap, unit) ==
    IF i > Len(sorted)
    THEN Max2(maxStreak, tempStreak)
    ELSE IF differenceInDays(parseISO(sorted[i]), parseISO(sorted[i - 1])) = gap
         THEN RunLoop(sorted, i + 1, tempStreak + unit, maxStreak, gap, unit)
         ELSE RunLoop(sorted, i + 1, unit, Max2(maxStreak, tempStreak), gap, unit)

\* mutant: the gaps between the success dates are not looked at
habitMaxStreak_NoGaps(S) == Cardinality(S)

habitMaxStreak(S) ==
    LET sortedDates == SortStrings(S)
    IN  IF Len(sortedDates) > 0 THEN RunLoop(sortedDates, 2, 1, 0, 1, 1) ELSE 0

calculateHabitStreak(habitId, habit, entries) ==
    IF Indices(entries, habitId) = {}
    THEN [currentStreak |-> 0, maxStreak |-> 0]
    ELSE LET S == successDates(habitId, habit, entries)
         IN  [currentStreak |-> habitCurrentStreak(S),
              maxStreak     |-> habitMaxStreak(S)]

----------------------------------------------------------------------------
(* Overall streak, weekly-goal based (calculateOverallStreak, utils.ts)    *)

weekKey(entry) == formatDate(getWeekStart(parseISO(entry.date)))

\* weeklyTotals.get(weekStart).get(habitId) || 0
weeklyTotal(entries, weekStart, habitId) ==
    LET idx == {i \in DOMAIN entries : /\ entries[i].habitId = habitId
                                       /\ weekKey(entries[i]) = weekStart}
        RECURSIVE Sum(_)
        Sum(I) == IF I = {} THEN 0
                  ELSE LET i == CHOOSE j \in I : TRUE
                       IN  entries[i].value + Sum(I \ {i})
    IN  Sum(idx)

\* the keys of weeklyTotals: the weeks that have entries
weeksWithEntries(entries) == {weekKey(entries[i]) : i \in DOMAIN entries}

\* total < habit.weeklyGoal * 0.8
belowEighty(total, habit) == 5 * total < 4 * habit.weeklyGoal

completeWeeks(hs, entries) ==
    {w \in weeksWithEntries(entries) :
        \A k \in DOMAIN hs : ~belowEighty(weeklyTotal(entries, w, hs[k].id), hs[k])}

\* mutant: the binary margin of one day is used for every habit
pacingBucket_OneMargin(habit, total, dayOfWeek) ==
    IF total >= habit.weeklyGoal THEN "on-track"
    ELSE IF 7 * total - habit.weeklyGoal * dayOfWeek >= 0 THEN "on-track"
    ELSE IF 7 * total - habit.weeklyGoal * dayOfWeek >= 0 - 7 THEN "warning"
    ELSE "behind"

\* the bucket of one habit in the current week
pacingBucket(habit, total, dayOfWeek) ==
    IF total >= habit.weeklyGoal THEN "on-track"
    ELSE IF habit.type = "binary"
         THEN IF 7 * total - habit.weeklyGoal * dayOfWeek >= 0 THEN "on-track"
              ELSE IF 7 * total - habit.weeklyGoal * dayOfWeek >= 0 - 7 THEN "warning"
              ELSE "behind"
         ELSE IF 7 * total - habit.weeklyGoal * dayOfWeek >= 0 THEN "on-track"
              ELSE IF 7 * total - habit.weeklyGoal * dayOfWeek >= 0 - habit.weeklyGoal
                   THEN "warning"
              ELSE "behind"

\* mutant: a habit in warning hides a habit that is behind
weeklyStatusOf_WarningFirst(hs, entries) ==
    LET currentWeekStart == getWeekStart(now.day)
        currentWeekStr   == formatDate(currentWeekStart)
        dayOfWeek        == differenceInDays(now.day, currentWeekStart) + 1
        bucket(k)        == pacingBucket(hs[k],
                                weeklyTotal(entries, currentWeekStr, hs[k].id), dayOfWeek)
    IN  IF \E k \in DOMAIN hs : bucket(k) = "warning" THEN "warning"
        ELSE IF \E k \in DOMAIN hs : bucket(k) = "behind" THEN "behind"
        ELSE "on-track"

weeklyStatusOf(hs, entries) ==
    LET currentWeekStart == getWeekStart(now.day)
        currentWeekStr   == formatDate(currentWeekStart)
        dayOfWeek        == differenceInDays(now.day, currentWeekStart) + 1
        bucket(k)        == pacingBucket(hs[k],
                                weeklyTotal(entries, currentWeekStr, hs[k].id), dayOfWeek)
    IN  IF \E k \in DOMAIN hs : bucket(k) = "behind" THEN "behind"
        ELSE IF \E k \in DOMAIN hs : bucket(k) = "warning" THEN "warning"
        ELSE "on-track"

\* while (completeWeeks.has(formatDate(checkWeek))) { currentStreak += 7; checkWeek -= 1 week }
RECURSIVE CountWeeksBackward(_, _)
CountWeeksBackward(C, checkWeek) ==
    IF formatDate(checkWeek) \in C
    THEN 7 + CountWeeksBackward(C, subWeeks(checkWeek, 1))
    ELSE 0

overallCurrentStreak(C, isCurrentWeekOnTrack) ==
    LET currentWeekStart == getWeekStart(now.day)
        dayOfWeek        == differenceInDays(now.day, currentWeekStart) + 1
        sortedWeeks      == SortStrings(C)
        lastWeekStart    == formatDate(subWeeks(currentWeekStart, 1))
    IN  \* sortedWeeks[0] of the descending sort is the last of the ascending one
        IF Len(sortedWeeks) > 0 /\ sortedWeeks[Len(sortedWeeks)] = lastWeekStart
        THEN CountWeeksBackward(C, parseISO(lastWeekStart))
             + (IF isCurrentWeekOnTrack THEN dayOfWeek ELSE 0)
        ELSE IF isCurrentWeekOnTrack THEN dayOfWeek ELSE 0

\* mutant: every complete week counts, adjacent to another or not
overallMaxStreak_NoGaps(C, currentStreak) == Max2(7 * Cardinality(C), currentStreak)

overallMaxStreak(C, currentStreak) ==
    LET sortedWeeksAsc == SortStrings(C)
    IN  Max2(IF Len(sortedWeeksAsc) > 0
             THEN RunLoop(sortedWeeksAsc, 2, 7, 0, 7, 7) ELSE 0,
             currentStreak)

calculateOverallStreak(hs, entries) ==
    IF Len(hs) = 0
    THEN [currentStreak |-> 0, maxStreak |-> 0,
          isCurrentWeekOnTrack |-> TRUE, weeklyStatus |-> "on-track"]
    ELSE LET C       == completeWeeks(hs, entries)
             status  == weeklyStatusOf(hs, entries)
             onTrack == (status = "on-track")
             current == overallCurrentStreak(C, onTrack)
         IN  [currentStreak |-> current,
              maxStreak |-> overallMaxStreak(C, current),
              isCurrentWeekOnTrack |-> onTrack,
              weeklyStatus |-> status]

----------------------------------------------------------------------------
(***************************************************************************)
(* JavaScript Number: IEEE-754 binary64, round to nearest, ties to even.   *)
(* A natural number of any size is a sequence of limbs, least significant  *)
(* first, in base 2^15.  A finite Number is [sign, m, e] with value        *)
(* sign * m * 2^e, where m has exactly 53 bits (four limbs), or is zero.   *)
(***************************************************************************)
Base == 2^15

limb(a, i) == IF i <= Len(a) THEN a[i] ELSE 0

RECURSIVE BigTrim(_)
BigTrim(a) ==
    IF a = <<>> \/ a[Len(a)] # 0 THEN a ELSE BigTrim(SubSeq(a, 1, Len(a) - 1))

Big(n) == BigTrim(<<n % Base, (n \div Base) % Base, n \div (Base * Base)>>)

RECURSIVE BigCmpFrom(_, _, _)
BigCmpFrom(a, b, i) ==
    IF i = 0 THEN 0
    ELSE IF limb(a, i) < limb(b, i) THEN 0 - 1
    ELSE IF limb(a, i) > limb(b, i) THEN 1
    ELSE BigCmpFrom(a, b, i - 1)

BigCmp(a, b) == BigCmpFrom(a, b, IF Len(a) > Len(b) THEN Len(a) ELSE Len(b))

RECURSIVE BigAddFrom(_, _, _, _)
BigAddFrom(a, b, i, carry) ==
    IF i > Len(a) /\ i > Len(b)
    THEN IF carry > 0 THEN <<carry>> ELSE <<>>
    ELSE LET s == limb(a, i) + limb(b, i) + carry
         IN  <<s % Base>> \o BigAddFrom(a, b, i + 1, s \div Base)

BigAdd(a, b) == BigAddFrom(a, b, 1, 0)

RECURSIVE BigSubFrom(_, _, _, _)
BigSubFrom(a, b, i, borrow) ==
    IF i > Len(a) THEN <<>>
    ELSE LET s == a[i] - limb(b, i) - borrow
         IN  <<s % Base>> \o BigSubFrom(a, b, i + 1, IF s < 0 THEN 1 ELSE 0)

BigSub(a, b) == BigTrim(BigSubFrom(a, b, 1, 0))

RECURSIVE BigMulFrom(_, _, _, _)
BigMulFrom(a, k, i, carry) ==
    IF i > Len(a) THEN Big(carry)
    ELSE LET s == a[i] * k + carry
         IN  <<s % Base>> \o BigMulFrom(a, k, i + 1, s \div Base)

BigMul(a, k) == BigTrim(BigMulFrom(a, k, 1, 0))

RECURSIVE BitsOf(_)
BitsOf(n) == IF n = 0 THEN 0 ELSE 1 + BitsOf(n \div 2)

BitLen(a) == IF a = <<>> THEN 0 ELSE 15 * (Len(a) - 1) + BitsOf(a[Len(a)])

ShiftLeft(a, s) ==
    IF a = <<>> THEN <<>>
    ELSE [i \in 1..(s \div 15) |-> 0] \o BigMul(a, 2^(s % 15))

ShiftRight(a, s) ==
    LET d == SubSeq(a, (s \div 15) + 1, Len(a))
        r == s % 15
    IN  BigTrim([i \in 1..Len(d) |->
                    (d[i] \div 2^r) + (limb(d, i + 1) % 2^r) * 2^(15 - r)])

LowBits(a, s) == BigSub(a, ShiftLeft(ShiftRight(a, s), s))

Zero == [sign |-> 0, m |-> <<>>, e |-> 0]

\* n against 2^s * (1/2), for n < 2^s: -1 below the half, 0 on it, 1 above
HalfCmp(n, s) == BigCmp(ShiftLeft(n, 1), ShiftLeft(<<1>>, s))

\* q of 53 bits, one added when the bits cut off say so, for the exponent e
RoundUp(sign, q, half, e) ==
    IF half > 0 \/ (half = 0 /\ q[1] % 2 = 1)
    THEN IF BitLen(BigAdd(q, <<1>>)) > 53
         THEN [sign |-> sign, m |-> ShiftLeft(<<1>>, 52), e |-> e + 1]
         ELSE [sign |-> sign, m |-> BigAdd(q, <<1>>), e |-> e]
    ELSE [sign |-> sign, m |-> q, e |-> e]

\* n of b > 0 bits
RoundBits(sign, n, e, b) ==
    IF b <= 53
    THEN [sign |-> sign, m |-> ShiftLeft(n, 53 - b), e |-> e - (53 - b)]
    ELSE RoundUp(sign, ShiftRight(n, b - 53),
                 HalfCmp(LowBits(n, b - 53), b - 53), e + (b - 53))

\* The Number nearest to sign * n * 2^e, ties to even.
RoundToNumber(sign, n, e) == IF n = <<>> THEN Zero ELSE RoundBits(sign, n, e, BitLen(n))

ToNumber(k) ==
    RoundToNumber(IF k < 0 THEN 0 - 1 ELSE 1, Big(IF k < 0 THEN 0 - k ELSE k), 0)

\* x * k for an integer k with |k| < 2^15
NumTimes(x, k) ==
    RoundToNumber(IF k < 0 THEN 0 - x.sign ELSE x.sign,
                  BigMul(x.m, IF k < 0 THEN 0 - k ELSE k), x.e)

\* n <= 15 further quotient bits of r / d, r < d: <<2^n * q + bits, remainder>>
RECURSIVE DivBits(_, _, _, _)
DivBits(r, d, n, q) ==
    IF n = 0 THEN <<q, r>>
    ELSE LET r2 == BigAdd(r, r)
         IN  IF BigCmp(r2, d) >= 0
             THEN DivBits(BigSub(r2, d), d, n - 1, 2 * q + 1)
             ELSE DivBits(r2, d, n - 1, 2 * q)

\* <<floor(r * 2^(15 * n) / d) as n limbs, remainder>>, for r < d
RECURSIVE DivLimbs(_, _, _)
DivLimbs(r, d, n) ==
    IF n = 0 THEN <<<<>>, r>>
    ELSE LET hi == DivBits(r, d, 15, 0)
             lo == DivLimbs(hi[2], d, n - 1)
         IN  <<lo[1] \o <<hi[1]>>, lo[2]>>

\* the quotient with its leading bit, and a lowest limb for a remainder
WithSticky(qr, lead) ==
    BigTrim(<<IF qr[2] = <<>> THEN 0 ELSE 1>> \o qr[1] \o <<lead>>)

\* x / y, y not zero.  The quotient is taken to 60 fraction bits and a
\* sticky bit standing for a non-zero remainder, and rounded once.
NumDiv(x, y) ==
    IF x.sign = 0 THEN Zero
    ELSE IF BigCmp(x.m, y.m) >= 0
    THEN RoundToNumber(x.sign * y.sign,
                       WithSticky(DivLimbs(BigSub(x.m, y.m), y.m, 4), 1),
                       x.e - y.e - 75)
    ELSE RoundToNumber(x.sign * y.sign,
                       WithSticky(DivLimbs(x.m, y.m, 4), 0), x.e - y.e - 75)

\* sa * a * 2^lo + sb * b * 2^lo for sa, sb in {-1, 1}
AlignedSum(sa, a, sb, b, lo) ==
    RoundToNumber(IF sa = sb \/ BigCmp(a, b) >= 0 THEN sa ELSE sb,
                  IF sa = sb THEN BigAdd(a, b)
                  ELSE IF BigCmp(a, b) >= 0 THEN BigSub(a, b) ELSE BigSub(b, a),
                  lo)

\* x - y
NumMinus(x, y) ==
    IF x.sign = 0 THEN [y EXCEPT !.sign = 0 - y.sign]
    ELSE IF y.sign = 0 THEN x
    ELSE IF x.e < y.e
    THEN AlignedSum(x.sign, x.m, 0 - y.sign, ShiftLeft(y.m, y.e - x.e), x.e)
    ELSE AlignedSum(x.sign, ShiftLeft(x.m, x.e - y.e), 0 - y.sign, y.m, y.e)

\* x + y
NumPlus(x, y) == NumMinus(x, [y EXCEPT !.sign = 0 - y.sign])

\* x < y, x = y, x > y as -1, 0, 1
NumCmp(x, y) == NumMinus(x, y).sign

RECURSIVE BigToInt(_)
BigToInt(a) == IF a = <<>> THEN 0 ELSE a[1] + Base * BigToInt(Tail(a))

\* sign * q, or the next integer, by where the fraction is against the half
RoundHalfUp(sign, q, half) ==
    IF sign > 0 THEN q + (IF half >= 0 THEN 1 ELSE 0)
    ELSE 0 - (q + (IF half > 0 THEN 1 ELSE 0))

\* Math.round: the integer nearest to x, a half rounding towards +Infinity
MathRound(x) ==
    IF x.sign = 0 THEN 0
    ELSE IF x.e >= 0 THEN x.sign * BigToInt(ShiftLeft(x.m, x.e))
    ELSE RoundHalfUp(x.sign, BigToInt(ShiftRight(x.m, 0 - x.e)),
                     HalfCmp(LowBits(x.m, 0 - x.e), 0 - x.e))

\* mutant: of two elements with the same key the later one goes first
StableSort_TiesReversed(seq, keys) ==
    LET pos(i) == 1 + Cardinality({j \in DOMAIN seq :
                          \/ keys[j] < keys[i]
                          \/ j > i /\ keys[j] = keys[i]})
    IN  IF seq = << >> THEN << >>
        ELSE [p \in DOMAIN seq |-> seq[CHOOSE i \in DOMAIN seq : pos(i) = p]]

\* Array.prototype.sort(compare), which is stable; keys[i] is the rank compare
\* gives seq[i]: an element goes behind those of a smaller key and behind the
\* earlier ones of the same key
StableSort(seq, keys) ==
    LET pos(i) == 1 + Cardinality({j \in DOMAIN seq :
                          \/ keys[j] < keys[i]
                          \/ j < i /\ keys[j] = keys[i]})
    IN  IF seq = << >> THEN << >>
        ELSE [p \in DOMAIN seq |-> seq[CHOOSE i \in DOMAIN seq : pos(i) = p]]

----------------------------------------------------------------------------
(* Weekly statistics (calculateWeeklyStats, calculateOverallStats).        *)
(* weekStart is the Monday the caller passes, today the day of new Date(). *)

null == "null"

\* eachDayOfInterval({ start: weekStart, end: getWeekEnd(weekStart) })
getWeekDates(weekStart) == weekStart..getWeekEnd(weekStart)

\* Math.round(x * 100) / 100
roundToCents(x) == NumDiv(ToNumber(MathRound(NumTimes(x, 100))), ToNumber(100))

RECURSIVE sumValues(_)
sumValues(es) == IF es = << >> THEN 0 ELSE Head(es).value + sumValues(Tail(es))

\* mutant: the goal is not pro-rated
goal_WholeWeek(weeklyGoal, activeDaysCount) == ToNumber(weeklyGoal)

\* goal = activeDaysCount > 0 ? (habit.weeklyGoal / 7) * activeDaysCount : habit.weeklyGoal
goal(weeklyGoal, activeDaysCount) ==
    IF activeDaysCount > 0
    THEN NumTimes(NumDiv(ToNumber(weeklyGoal), ToNumber(7)), activeDaysCount)
    ELSE ToNumber(weeklyGoal)

expectedProgress(g, activeDaysCount, activePassedDays) ==
    IF activePassedDays > 0
    THEN NumTimes(NumDiv(g, ToNumber(activeDaysCount)), activePassedDays)
    ELSE Zero

completionPercentage(t, g) ==
    IF g.sign > 0
    THEN LET percent == MathRound(NumTimes(NumDiv(t, g), 100))
         IN  IF percent < 100 THEN percent ELSE 100
    ELSE 0

\* the record calculateWeeklyStats returns, from the values it has computed;
\* t is the Number that total holds
weeklyStatsOf(habit, weekStartStr, total, t, g, remaining, activeDaysCount, remainingActiveDays, activePassedDays) ==
    [weekStart |-> weekStartStr,
     habitId |-> habit.id,
     total |-> total,
     goal |-> roundToCents(g),
     remaining |-> roundToCents(remaining),
     avgNeededPerDay |->
         roundToCents(IF remainingActiveDays > 0
                      THEN NumDiv(remaining, ToNumber(remainingActiveDays))
                      ELSE Zero),
     isOnTrack |->
         \/ NumCmp(t, expectedProgress(g, activeDaysCount, activePassedDays)) >= 0
         \/ NumCmp(t, g) >= 0,
     completionPercentage |-> completionPercentage(t, g),
     streak |-> 0]

\* Math.max(0, x)
maxZero(x) == IF x.sign > 0 THEN x ELSE Zero

\* the same, from the total and the goal of the active days
weeklyStatsOfGoal(habit, weekStartStr, total, t, g, activeDaysCount, remainingActiveDays, activePassedDays) ==
    weeklyStatsOf(habit, weekStartStr, total, t, g, maxZero(NumMinus(g, t)),
                  activeDaysCount, remainingActiveDays, activePassedDays)

\* entries.filter(e => e.habitId === habit.id && e.date >= weekStartStr && e.date <= weekEnd)
weekEntries(habit, entries, weekStart) ==
    SelectSeq(entries, LAMBDA e :
        /\ e.habitId = habit.id
        /\ ~StrLess(e.date, formatDate(weekStart))
        /\ ~StrLess(formatDate(getWeekEnd(weekStart)), e.date))

\* calculateWeeklyStats after the reduce: total is what the reduce returned
weeklyStatsOfTotal(habit, weekStart, total, t) ==
    LET createdDay   == habit.createdAt.day
        activeDays   == {day \in getWeekDates(weekStart) : day >= createdDay}
        today        == now.day
    IN  weeklyStatsOfGoal(habit, formatDate(weekStart), total, t,
            goal(habit.weeklyGoal, Cardinality(activeDays)),
            Cardinality(activeDays),
            Cardinality({d \in activeDays : d >= today}),
            Cardinality({d \in activeDays : d <= today}))

\* for entries whose values are whole numbers, which add without rounding
calculateWeeklyStats(habit, entries, weekStart) ==
    weeklyStatsOfTotal(habit, weekStart,
        sumValues(weekEntries(habit, entries, weekStart)),
        ToNumber(sumValues(weekEntries(habit, entries, weekStart))))

\* habitEntries.reduce((sum, entry) => sum + entry.value, sum) on values held
\* as Numbers: every + rounds
RECURSIVE reduceValues(_, _)
reduceValues(es, sum) ==
    IF es = << >> THEN sum ELSE reduceValues(Tail(es), NumPlus(sum, Head(es).value))

weeklyStatsOfNumber(habit, weekStart, t) == weeklyStatsOfTotal(habit, weekStart, t, t)

\* calculateWeeklyStats for entries whose values are Numbers of any kind
\* (parseFloat of what was typed)
calculateWeeklyStatsOfNumbers(habit, entries, weekStart) ==
    weeklyStatsOfNumber(habit, weekStart,
        reduceValues(weekEntries(habit, entries, weekStart), Zero))

RECURSIVE sumCompletion(_)
sumCompletion(stats) ==
    IF stats = << >> THEN 0
    ELSE Head(stats).completionPercentage + sumCompletion(Tail(stats))

\* mutant: every habit of the list must have a complete entry, whenever created
isPerfectDay_EveryHabit(hs, entries, date) ==
    LET dateStr == formatDate(date)
    IN  /\ date <= now.day
        /\ hs # << >>
        /\ \A k \in DOMAIN hs :
              \E i \in DOMAIN entries :
                  /\ entries[i].habitId = hs[k].id
                  /\ entries[i].date = dateStr
                  /\ isEntryComplete(entries[i], hs[k])

\* a day of the week on which every habit that existed has a complete entry
isPerfectDay(hs, entries, date) ==
    LET dateStr == formatDate(date)
        habitsExistingOnDay == {k \in DOMAIN hs : date >= hs[k].createdAt.day}
    IN  /\ date <= now.day
        /\ habitsExistingOnDay # {}
        /\ \A k \in habitsExistingOnDay :
              /\ \E i \in DOMAIN entries :
                    entries[i].habitId = hs[k].id /\ entries[i].date = dateStr
              /\ LET i == CHOOSE j \in DOMAIN entries :
                              /\ entries[j].habitId = hs[k].id
                              /\ entries[j].date = dateStr
                              /\ \A l \in 1..(j - 1) :
                                    ~(entries[l].habitId = hs[k].id
                                      /\ entries[l].date = dateStr)
                 IN  isEntryComplete(entries[i], hs[k])

\* the summary of the statistics, given the per-habit statistics that have a
\* goal in the week
overallStatsOf(hs, entries, weekStart, applicableStats) ==
    LET habitsOnTrack == Len(SelectSeq(applicableStats, LAMBDA s : s.isOnTrack))
        totalCompletion == sumCompletion(applicableStats)
        overallCompletionPercentage ==
            IF Len(applicableStats) > 0
            THEN MathRound(NumDiv(ToNumber(totalCompletion),
                                  ToNumber(Len(applicableStats))))
            ELSE 0
        sortedStats == StableSort(applicableStats,
                           [i \in DOMAIN applicableStats |->
                               0 - applicableStats[i].completionPercentage])
        notOnTrack == SelectSeq(sortedStats, LAMBDA s : ~s.isOnTrack)
    IN  [weekStart |-> formatDate(weekStart),
         totalHabits |-> Len(hs),
         habitsOnTrack |-> habitsOnTrack,
         overallCompletionPercentage |-> overallCompletionPercentage,
         bestPerformingHabit |->
             IF sortedStats = << >> THEN null ELSE sortedStats[1].habitId,
         needsAttentionHabit |->
             IF notOnTrack = << >> THEN null ELSE notOnTrack[1].habitId,
         weeklyPerfectDays |->
             Cardinality({date \in getWeekDates(weekStart) :
                             isPerfectDay(hs, entries, date)}),
         allHabitsWeeklyStreak |-> 0]

calculateOverallStats(hs, entries, weekStart) ==
    overallStatsOf(hs, entries, weekStart,
        SelectSeq([k \in DOMAIN hs |-> calculateWeeklyStats(hs[k], entries, weekStart)],
                  LAMBDA s : s.goal.sign > 0))

----------------------------------------------------------------------------
(* Streaks of one habit on the dashboard (calculateStreakData, utils.ts)   *)

\* differenceInDays(new Date(), date): the full days from local midnight of
\* `date` to now, truncated towards zero
differenceInDaysFromNow(date) ==
    IF date <= now.day THEN now.day - date
    ELSE 0 - (IF now.minute > 0 THEN date - now.day - 1 ELSE date - now.day)

\* the two loops of calculateStreakData, one shape: an item is a day or a
\* week with `ok` (value > 0, total >= weeklyGoal) and `recent` (today or
\* yesterday, this week or the last); the items come newest first, and
\* neighbours of a run are `gap` days apart.  After the loop both maxima take
\* tempStreak.
RECURSIVE streakLoop(_, _, _, _, _, _, _, _)
streakLoop(items, i, current, longest, tempStreak, hasLast, last, gap) ==
    IF i > Len(items)
    THEN [current |-> Max2(current, tempStreak), longest |-> Max2(longest, tempStreak)]
    ELSE IF items[i].ok
         THEN IF ~hasLast \/ differenceInDays(last, items[i].day) = gap
              THEN streakLoop(items, i + 1,
                              IF current = 0 /\ items[i].recent THEN tempStreak + 1 ELSE current,
                              longest, tempStreak + 1, TRUE, items[i].day, gap)
              ELSE streakLoop(items, i + 1, current, Max2(longest, tempStreak),
                              1, TRUE, items[i].day, gap)
         ELSE streakLoop(items, i + 1, current, Max2(longest, tempStreak),
                         0, FALSE, 0, gap)

\* entries.filter((e) => e.habitId === habitId).sort((a, b) => b.date.localeCompare(a.date))
habitEntriesOf(habitId, entries) ==
    LET own == SelectSeq(entries, LAMBDA e : e.habitId = habitId)
    IN  StableSort(own, [k \in DOMAIN own |-> 0 - parseISO(own[k].date)])

\* the days of the habit's entries, newest first
dayItems(habitEntries) ==
    [k \in DOMAIN habitEntries |->
        [day    |-> parseISO(habitEntries[k].date),
         ok     |-> habitEntries[k].value > 0,
         recent |-> \/ parseISO(habitEntries[k].date) = now.day
                    \/ differenceInDaysFromNow(parseISO(habitEntries[k].date)) = 1]]

\* Array.from(weeklyTotals.entries()).sort((a, b) => b[0].localeCompare(a[0]))
weekItems(habitId, habitEntries, weeklyGoal) ==
    LET weeks == {getWeekStart(parseISO(habitEntries[k].date)) : k \in DOMAIN habitEntries}
        sortedWeeks == [p \in 1..Cardinality(weeks) |->
                           CHOOSE w \in weeks : Cardinality({v \in weeks : v > w}) = p - 1]
    IN  [k \in DOMAIN sortedWeeks |->
            [day    |-> sortedWeeks[k],
             ok     |-> weeklyTotal(habitEntries, formatDate(sortedWeeks[k]), habitId) >= weeklyGoal,
             recent |-> \/ sortedWeeks[k] = getWeekStart(now.day)
                        \/ sortedWeeks[k] = getWeekStart(subWeeks(now.day, 1))]]

streakDataOf(habitId, habitEntries, daily, weekly) ==
    [habitId             |-> habitId,
     currentDailyStreak  |-> daily.current,
     longestDailyStreak  |-> daily.longest,
     currentWeeklyStreak |-> weekly.current,
     longestWeeklyStreak |-> weekly.longest,
     lastActiveDate      |-> habitEntries[1].date]

calculateStreakData(habitId, entries, weeklyGoal) ==
    IF habitEntriesOf(habitId, entries) = << >>
    THEN [habitId |-> habitId, currentDailyStreak |-> 0, longestDailyStreak |-> 0,
          currentWeeklyStreak |-> 0, longestWeeklyStreak |-> 0, lastActiveDate |-> ""]
    ELSE streakDataOf(habitId, habitEntriesOf(habitId, entries),
             streakLoop(dayItems(habitEntriesOf(habitId, entries)), 1, 0, 0, 0, FALSE, 0, 1),
             streakLoop(weekItems(habitId, habitEntriesOf(habitId, entries), weeklyGoal),
                        1, 0, 0, 0, FALSE, 0, 7))

----------------------------------------------------------------------------
(* The calculators applied to a snapshot of the context.                   *)
(* ReportsView, TrackerView and Header call them with the context's habits *)
(* and allEntries; the snapshots are drawn here from bounded families.     *)

\* 2024-12-30, a Monday (weeks of the window cross the turn of the year)
Day0 == parseISO(<<2024, 12, 30>>)

Noon(n) == [day |-> n, minute |-> 720]

NoOutput == [fn |-> "none"]

mkHabit(id, type, weeklyGoal, createdAt, order) ==
    [id |-> id, type |-> type, weeklyGoal |-> weeklyGoal,
     createdAt |-> createdAt, archived |-> FALSE, order |-> order]

\* the id the context derives: `${habitId}_${date}`
entryId(habitId, date) == <<habitId, date>>

mkEntry(habitId, date, value, target, at) ==
    [id |-> entryId(habitId, date), habitId |-> habitId, date |-> date,
     value |-> value, targetAtEntry |-> target, createdAt |-> at, updatedAt |-> at]

RECURSIVE SeqOf(_)
SeqOf(S) ==
    IF S = {} THEN << >>
    ELSE LET x == CHOOSE y \in S : TRUE IN <<x>> \o SeqOf(S \ {x})

\* every entry array with at most MaxEntries entries, one per key, a payload each
Snapshots(Keys, Payloads, at) ==
    UNION {{SeqOf({mkEntry(k[1], k[2], f[k][1], f[k][2], at) : k \in D}) :
                f \in [D -> Payloads]} :
           D \in {K \in SUBSET Keys : Cardinality(K) <= MaxEntries}}

\* one habit, a day-by-day history up to today
DailyToday == Day0 + 3
DailyHabits ==
    {<<mkHabit("h1", c[1], c[2], Noon(Day0 - 30), 0)>> :
        c \in {<<"binary", 7>>, <<"numeric", 7>>, <<"numeric", 70>>}}
DailyKeys == {<<"h1", formatDate(DailyToday - k)>> : k \in 0..4}
\* a binary cell holds 0 or 1, a numeric one any amount
DailyPayloads(habit) ==
    (IF habit.type = "binary" THEN {0, 1} ELSE {0, 7, 8}) \X {Undefined, 10}

\* no habit, one or two habits, a history of four weeks
WeeklyTodays == {Day0 + 14, Day0 + 16, Day0 + 20}
WeeklyHabits ==
    {<< >>}
    \cup {<<mkHabit("h1", c[1], c[2], Noon(Day0 - 30), 0)>> :
             c \in {<<"numeric", 7>>, <<"numeric", 70>>, <<"binary", 2>>}}
    \cup {<<mkHabit("h1", "numeric", 7, Noon(Day0 - 30), 0),
            mkHabit("h2", c[1], c[2], Noon(c[3]), 1)>> :
            c \in {"binary", "numeric"} \X {7} \X {Day0 - 30, Day0 + 14}}
WeeklyDates ==
    {formatDate(Day0 + k) : k \in {0 - 6, 1, 8, 14, 16}}
WeeklyPayloads == {3, 6} \X {Undefined}

InertStore ==
    /\ isFirebaseConfigured = FALSE
    /\ currentUserId = NoUser
    /\ localData = [habits |-> << >>, entries |-> << >>]
    /\ userEntries = EmptyMap
    /\ userHabits = EmptyMap
    /\ pendingValues = EmptyMap
    /\ enabledCells = {}
    /\ viewingUserId = NoUser
    /\ friendHabits = EmptyMap
    /\ friendEntries = EmptyMap
    /\ inFlight = << >>

InitDaily ==
    /\ now = Noon(DailyToday)
    /\ habits \in DailyHabits
    /\ allEntries \in Snapshots(DailyKeys, DailyPayloads(habits[1]), Noon(Day0))

InitWeekly ==
    /\ now \in {Noon(d) : d \in WeeklyTodays}
    /\ habits \in WeeklyHabits
    /\ allEntries \in Snapshots({habits[k].id : k \in DOMAIN habits} \X WeeklyDates,
                                WeeklyPayloads, Noon(Day0 - 7))

InitCalc ==
    /\ InitDaily \/ InitWeekly
    /\ InertStore
    /\ out = NoOutput

storeVars == <<now, isFirebaseConfigured, currentUserId, localData, userEntries,
               userHabits, habits, allEntries, pendingValues, enabledCells,
               viewingUserId, friendHabits, friendEntries, inFlight>>

habitOf(hs, habitId) == hs[CHOOSE k \in DOMAIN hs : hs[k].id = habitId]

\* isEntryComplete(entry, habit), as calculateHabitStreak and the perfect-day count call it
CallIsEntryComplete ==
    /\ out = NoOutput
    /\ \E i \in DOMAIN allEntries :
          out' = [fn |-> "isEntryComplete", entry |-> allEntries[i],
                  habit |-> habitOf(habits, allEntries[i].habitId),
                  val |-> isEntryComplete(allEntries[i],
                                          habitOf(habits, allEntries[i].habitId))]
    /\ UNCHANGED storeVars

\* habitStreaks[habit.id] = calculateHabitStreak(habit.id, habit, allEntries)
CallCalculateHabitStreak ==
    /\ out = NoOutput
    /\ \E k \in DOMAIN habits :
          out' = [fn |-> "calculateHabitStreak", habit |-> habits[k],
                  val |-> calculateHabitStreak(habits[k].id, habits[k], allEntries)]
    /\ UNCHANGED storeVars

\* calculateOverallStreak(habits, allEntries)
CallCalculateOverallStreak ==
    /\ out = NoOutput
    /\ out' = [fn |-> "calculateOverallStreak",
               val |-> calculateOverallStreak(habits, allEntries)]
    /\ UNCHANGED storeVars

\* Dashboard: streak: calculateStreakData(habit.id, allEntries, habit.weeklyGoal)
CallCalculateStreakData ==
    /\ out = NoOutput
    /\ \E k \in DOMAIN habits :
          out' = [fn |-> "calculateStreakData", habit |-> habits[k],
                  val |-> calculateStreakData(habits[k].id, allEntries,
                                              habits[k].weeklyGoal)]
    /\ UNCHANGED storeVars

NextCalc ==
    \/ CallIsEntryComplete
    \/ CallCalculateHabitStreak
    \/ CallCalculateOverallStreak
    \/ CallCalculateStreakData

SpecCalc == InitCalc /\ [][NextCalc]_vars

\* Dashboard: one or two habits and the entries around the week of 2025-01-13,
\* seen in that week or in the next one.  A habit is created and an entry is
\* dated no later than today.
StatsWeek == Day0 + 14
StatsTodays == {StatsWeek + 2, StatsWeek + 9}
StatsWeeks == {StatsWeek, StatsWeek + 7}
StatsHabits ==
    {<<mkHabit("h1", c[1], c[2], Noon(c[3]), 0)>> :
        c \in {<<"numeric", 10, StatsWeek + 3>>, <<"numeric", 7, StatsWeek + 3>>,
               <<"numeric", 7, StatsWeek + 8>>, <<"numeric", 14, Day0>>,
               <<"numeric", 70, StatsWeek + 3>>, <<"numeric", 29, Day0>>,
               <<"numeric", 0, Day0>>, <<"numeric", 0 - 7, Day0>>,
               <<"binary", 7, Day0>>}}
    \cup {<<mkHabit("h1", c[1], 7, Noon(Day0), 0),
            mkHabit("h2", "numeric", c[2][1], Noon(c[2][2]), 1)>> :
            c \in {"binary", "numeric"}
                  \X {<<7, StatsWeek + 8>>, <<7, StatsWeek + 3>>, <<14, Day0>>}}
StatsDates(hs) ==
    {formatDate(StatsWeek + k) : k \in IF Len(hs) = 1 THEN {0 - 1, 1, 3} ELSE {1, 3}}
\* a binary cell holds 0 or 1, a numeric one any amount
StatsPayloads(hs) ==
    (IF Len(hs) = 2 \/ hs[1].type = "binary" THEN {0, 1}
     ELSE IF hs[1].weeklyGoal = 29 THEN {1, 7, 29}
     ELSE {1, 7, 23}) \X {Undefined}

InitStats ==
    /\ now \in {Noon(d) : d \in StatsTodays}
    /\ habits \in StatsHabits
    /\ \A k \in DOMAIN habits : habits[k].createdAt.day <= now.day
    /\ allEntries \in Snapshots({habits[k].id : k \in DOMAIN habits} \X StatsDates(habits),
                                StatsPayloads(habits), Noon(Day0))
    /\ \A i \in DOMAIN allEntries : parseISO(allEntries[i].date) <= now.day
    /\ InertStore
    /\ out = NoOutput

\* habitStats: calculateWeeklyStats(habit, entries, weekStart)
CallCalculateWeeklyStats ==
    /\ out = NoOutput
    /\ \E k \in DOMAIN habits, weekStart \in StatsWeeks :
          out' = [fn |-> "calculateWeeklyStats", habit |-> habits[k],
                  weekStart |-> weekStart,
                  val |-> calculateWeeklyStats(habits[k], allEntries, weekStart)]
    /\ UNCHANGED storeVars

\* overallStats: calculateOverallStats(habits, entries, weekStart)
CallCalculateOverallStats ==
    /\ out = NoOutput
    /\ \E weekStart \in StatsWeeks :
          out' = [fn |-> "calculateOverallStats", weekStart |-> weekStart,
                  val |-> calculateOverallStats(habits, allEntries, weekStart)]
    /\ UNCHANGED storeVars

NextStats ==
    \/ CallCalculateWeeklyStats
    \/ CallCalculateOverallStats

SpecStats == InitStats /\ [][NextStats]_vars

\* The same call on entries whose values were typed with a decimal point:
\* one numeric habit, up to three days of the week logged, in any array order.
\* parseFloat of '0.1', '0.2', '0.3' is the Number nearest to k / 10.
parseFloatOfTenths(k) == NumDiv(ToNumber(k), ToNumber(10))

TypedTenths == {1, 2, 3}

TypedDates == {formatDate(StatsWeek + k) : k \in 0..2}

TypedArrays ==
    UNION {{[i \in 1..n |->
                mkEntry("h1", f[i][1], parseFloatOfTenths(f[i][2]), Undefined, Noon(Day0))] :
              f \in {g \in [1..n -> TypedDates \X TypedTenths] :
                        \A i, j \in 1..n : i # j => g[i][1] # g[j][1]}} :
           n \in 0..MaxEntries}

InitTyped ==
    /\ now = Noon(StatsWeek + 2)
    /\ habits = <<mkHabit("h1", "numeric", 7, Noon(Day0), 0)>>
    /\ allEntries \in TypedArrays
    /\ InertStore
    /\ out = NoOutput

CallCalculateWeeklyStatsTyped ==
    /\ out = NoOutput
    /\ out' = [fn |-> "calculateWeeklyStats", habit |-> habits[1],
               weekStart |-> StatsWeek,
               val |-> calculateWeeklyStatsOfNumbers(habits[1], allEntries, StatsWeek)]
    /\ UNCHANGED storeVars

SpecTyped == InitTyped /\ [][CallCalculateWeeklyStatsTyped]_vars

----------------------------------------------------------------------------
(* Claims about the calculators (checked under SpecCalc)                   *)

IsOverall == out.fn = "calculateOverallStreak"
IsHabitStreak == out.fn = "calculateHabitStreak"
IsComplete == out.fn = "isEntryComplete"
IsStreakData == out.fn = "calculateStreakData"

\* 1..7, Monday = 1
DayOfWeek == ((now.day + 3) % 7) + 1

ThisWeek == getWeekStart(now.day)

\* the number of consecutive weeks of C that end with the week before the current one
PriorRun(C) ==
    CHOOSE k \in 0..(Cardinality(C)) :
        /\ \A j \in 1..k : formatDate(ThisWeek - 7 * j) \in C
        /\ formatDate(ThisWeek - 7 * (k + 1)) \notin C

\* C1: currentStreak = 7 * k + (dayOfWeek if the week is on-track, else 0), k the
\* number of consecutive complete weeks ending with the week before the current
\* one, whatever the current week's totals are.
C1_CurrentStreakComposition ==
    (IsOverall /\ Len(habits) > 0) =>
        out.val.currentStreak =
            7 * PriorRun(completeWeeks(habits, allEntries))
            + (IF out.val.weeklyStatus = "on-track" THEN DayOfWeek ELSE 0)

\* the habit existed during the week that starts on day w
ExistedInWeek(habit, w) == habit.createdAt.day <= w + 6

\* C2: a week is complete exactly when every habit that existed during that week
\* has a week total of at least 80% of its weeklyGoal; a habit created after the
\* week has no influence.
C2_CompleteWeekIgnoresLaterHabits ==
    IsOverall =>
        \A w \in weeksWithEntries(allEntries) :
            (w \in completeWeeks(habits, allEntries))
            <=> (\A k \in DOMAIN habits :
                    ExistedInWeek(habits[k], parseISO(w)) =>
                        5 * weeklyTotal(allEntries, w, habits[k].id)
                            >= 4 * habits[k].weeklyGoal)

\* C5: isEntryComplete is value >= 1 for a binary habit, and value >= 0.8 * g for
\* a numeric one, g being targetAtEntry when defined and weeklyGoal / 7 otherwise;
\* with a daily goal of 10 a value of 8 is complete and a value of 7 is not.
C5_EntryCompleteThreshold ==
    IsComplete =>
        /\ out.habit.type = "binary" => (out.val <=> out.entry.value >= 1)
        /\ (out.habit.type = "numeric" /\ out.entry.targetAtEntry # Undefined) =>
              (out.val <=> 5 * out.entry.value >= 4 * out.entry.targetAtEntry)
        /\ (out.habit.type = "numeric" /\ out.entry.targetAtEntry = Undefined) =>
              (out.val <=> 35 * out.entry.value >= 4 * out.habit.weeklyGoal)
        /\ (/\ out.habit.type = "numeric"
            /\ \/ out.entry.targetAtEntry = 10
               \/ out.entry.targetAtEntry = Undefined /\ out.habit.weeklyGoal = 70) =>
              /\ out.entry.value = 8 => out.val
              /\ out.entry.value = 7 => ~out.val

\* a numeric entry of 8 against a stored target of 10, under a habit whose own
\* daily goal (1) would have accepted 7 too
C5_Witness ==
    /\ IsComplete
    /\ out.habit.type = "numeric"
    /\ out.habit.weeklyGoal = 7
    /\ out.entry.targetAtEntry = 10
    /\ out.entry.value = 8
    /\ out.val

\* the day numbers of the habit's complete entries
SuccessDays(habit) ==
    {parseISO(allEntries[i].date) :
        i \in {j \in DOMAIN allEntries : /\ allEntries[j].habitId = habit.id
                                         /\ isEntryComplete(allEntries[j], habit)}}

\* the length of the run of S that ends on day `last` (0 when last is not in S)
RunEnding(S, last) ==
    CHOOSE n \in 0..Cardinality(S) :
        /\ \A i \in 0..(n - 1) : (last - i) \in S
        /\ (last - n) \notin S

\* C9: currentStreak is 0 when neither today nor yesterday is a success date, and
\* otherwise the number of consecutive success dates counted backward from today
\* (if it is one) or from yesterday; {D, D-1, D-2} without D-3 gives exactly 3.
C9_HabitCurrentStreak ==
    IsHabitStreak =>
        LET S     == SuccessDays(out.habit)
            today == now.day
        IN  /\ out.val.currentStreak =
                  (IF today \in S THEN RunEnding(S, today)
                   ELSE RunEnding(S, today - 1))
            /\ (today \notin S /\ (today - 1) \notin S) => out.val.currentStreak = 0
            /\ ({today, today - 1, today - 2} \subseteq S /\ (today - 3) \notin S)
                  => out.val.currentStreak = 3

C9_Witness ==
    /\ IsHabitStreak
    /\ {now.day, now.day - 1, now.day - 2} \subseteq SuccessDays(out.habit)
    /\ (now.day - 3) \notin SuccessDays(out.habit)
    /\ out.val.currentStreak = 3

\* the length of the longest run of consecutive days in S
LongestRun(S) ==
    CHOOSE n \in 0..Cardinality(S) :
        /\ n > 0 => \E a \in S : \A i \in 0..(n - 1) : (a + i) \in S
        /\ ~\E a \in S : \A i \in 0..n : (a + i) \in S

\* C10: maxStreak is the length of the longest run of consecutive calendar dates
\* among the dates with a complete entry (0 when there is none), and so is never
\* less than currentStreak.
C10_HabitMaxStreak ==
    IsHabitStreak =>
        /\ out.val.maxStreak = LongestRun(SuccessDays(out.habit))
        /\ out.val.maxStreak >= out.val.currentStreak

\* an older run of two days is longer than the run of one that ends today
C10_Witness ==
    /\ IsHabitStreak
    /\ out.val.currentStreak = 1
    /\ out.val.maxStreak = 2

----------------------------------------------------------------------------
(* localStorage adapter (lib/localStorage.ts).  Each operation reads the   *)
(* stored StorageData, changes the copy and writes it back.                *)

\* entries.findIndex(e => e.habitId === habitId && e.date === date); 0 for -1
findEntryIndex(entries, habitId, date) ==
    LET hits == {i \in DOMAIN entries : /\ entries[i].habitId = habitId
                                        /\ entries[i].date = date}
    IN  IF hits = {} THEN 0 ELSE CHOOSE i \in hits : \A j \in hits : i <= j

\* habits.findIndex(h => h.id === habitId); 0 for -1
findHabitIndex(hs, habitId) ==
    LET hits == {i \in DOMAIN hs : hs[i].id = habitId}
    IN  IF hits = {} THEN 0 ELSE CHOOSE i \in hits : \A j \in hits : i <= j

createHabitLocal(data, habit) ==
    [data EXCEPT !.habits = Append(@, habit)]

\* updates: the fields the habit form changed, here the weekly goal
updateHabitLocal(data, habitId, updates) ==
    LET index == findHabitIndex(data.habits, habitId)
    IN  IF index # 0
        THEN [data EXCEPT !.habits[index].weeklyGoal = updates.weeklyGoal]
        ELSE data

deleteHabitLocal(data, habitId) ==
    LET KeepHabit(h) == h.id # habitId
        KeepEntry(e) == e.habitId # habitId
    IN  [habits  |-> SelectSeq(data.habits, KeepHabit),
         entries |-> SelectSeq(data.entries, KeepEntry)]

\* data.habits.filter(h => !h.archived).sort((a, b) => a.order - b.order)
subscribeToHabitsLocal(data) ==
    LET Active(h) == ~h.archived
        active    == SelectSeq(data.habits, Active)
    IN  StableSort(active, [i \in DOMAIN active |-> active[i].order])

\* mutant: an update replaces the stored entry by the incoming one
upsertEntryLocal_Replace(data, entry) ==
    LET existingIndex == findEntryIndex(data.entries, entry.habitId, entry.date)
    IN  IF existingIndex # 0
        THEN [data EXCEPT !.entries[existingIndex] = entry]
        ELSE [data EXCEPT !.entries = Append(@, entry)]

upsertEntryLocal(data, entry) ==
    LET existingIndex == findEntryIndex(data.entries, entry.habitId, entry.date)
    IN  IF existingIndex # 0
        THEN LET existingTarget == data.entries[existingIndex].targetAtEntry
             IN  [data EXCEPT !.entries[existingIndex] =
                     [@ EXCEPT !.value = entry.value,
                               !.targetAtEntry =
                                   IF entry.targetAtEntry # Undefined
                                   THEN entry.targetAtEntry ELSE existingTarget,
                               !.updatedAt = now]]
        ELSE [data EXCEPT !.entries =
                 Append(@, [entry EXCEPT !.id = entryId(entry.habitId, entry.date),
                                         !.createdAt = now,
                                         !.updatedAt = now])]

\* data.entries.sort((a, b) => b.date.localeCompare(a.date))
getAllEntriesLocal(data) ==
    LET es == data.entries
        \* how many stored dates compare after the one of es[i]
        later(i) == Cardinality({j \in DOMAIN es : StrLess(es[i].date, es[j].date)})
    IN  StableSort(es, [i \in DOMAIN es |-> later(i)])

RECURSIVE mergeHabits(_, _)
mergeHabits(stored, incoming) ==
    IF incoming = << >> THEN stored
    ELSE LET habit         == Head(incoming)
             existingIndex == findHabitIndex(stored, habit.id)
         IN  mergeHabits(IF existingIndex # 0
                         THEN [stored EXCEPT ![existingIndex] = habit]
                         ELSE Append(stored, habit),
                         Tail(incoming))

RECURSIVE mergeEntries(_, _)
mergeEntries(stored, incoming) ==
    IF incoming = << >> THEN stored
    ELSE LET entry         == Head(incoming)
             existingIndex == findEntryIndex(stored, entry.habitId, entry.date)
         IN  mergeEntries(IF existingIndex # 0
                          THEN [stored EXCEPT ![existingIndex] = entry]
                          ELSE Append(stored, entry),
                          Tail(incoming))

importDataLocal(data, hs, es) ==
    [habits  |-> mergeHabits(data.habits, hs),
     entries |-> mergeEntries(data.entries, es)]

\* e.date < weekStart || e.date > weekEnd
resetWeekDataLocal(data, weekStart, weekEnd) ==
    LET Outside(e) == StrLess(e.date, weekStart) \/ StrLess(weekEnd, e.date)
    IN  [data EXCEPT !.entries = SelectSeq(@, Outside)]

deleteAllHabitsLocal == [habits |-> << >>, entries |-> << >>]

deleteAllEntriesLocal(data) == [data EXCEPT !.entries = << >>]

----------------------------------------------------------------------------
(* Firestore adapter, per user (lib/firebase.ts).  A collection is a map   *)
(* from document id to document data.                                      *)

\* setDoc(doc(habitsRef, habit.id), habit)
createHabit(docs, habit) == Put(docs, habit.id, habit)

\* updateDoc(habitRef, data): fails when the document does not exist
updateHabit(docs, habitId, updates) ==
    [docs EXCEPT ![habitId].weeklyGoal = updates.weeklyGoal]

\* deleteDoc(habitRef)
deleteHabit(docs, habitId) == Remove(docs, {habitId})

\* query(habitsRef, orderBy('order', 'asc')), documents of equal order by id
subscribeToHabits(docs) ==
    LET all == SeqOf({docs[k] : k \in DOMAIN docs})
    IN  StableSort(all, [i \in DOMAIN all |-> all[i].order])

\* setDoc(doc(entriesRef, entry.id), entry)
upsertEntry(docs, entry) == Put(docs, entry.id, entry)

\* The documents of a query come in the order of their ids.  An id is
\* `${name}_${date}`; DocNames lists the names in string order.
DocNames == <<"copy1", "copy2", "f1", "h1">>
docIdLess(a, b) ==
    LET rank(name) == CHOOSE i \in DOMAIN DocNames : DocNames[i] = name
    IN  \/ rank(a[1]) < rank(b[1])
        \/ a[1] = b[1] /\ StrLess(a[2], b[2])

\* snapshot.docs.map(doc => ({ id: doc.id, ...doc.data() }))
getAllEntries(docs) ==
    LET es == SeqOf({docs[k] : k \in DOMAIN docs})
    IN  StableSort(es, [i \in DOMAIN es |->
                          Cardinality({k \in DOMAIN docs : docIdLess(k, es[i].id)})])

RECURSIVE batchSet(_, _)
batchSet(docs, incoming) ==
    IF incoming = << >> THEN docs
    ELSE batchSet(Put(docs, Head(incoming).id, Head(incoming)), Tail(incoming))

\* where('date', '>=', weekStart), where('date', '<=', weekEnd): batch.delete
resetWeekData(docs, weekStart, weekEnd) ==
    Remove(docs, {k \in DOMAIN docs : /\ ~StrLess(docs[k].date, weekStart)
                                      /\ ~StrLess(weekEnd, docs[k].date)})

\* deletes the documents of the habits collection
deleteAllHabits(docs) == EmptyMap

deleteAllEntries(docs) == EmptyMap

----------------------------------------------------------------------------
(* HabitProvider (context/HabitContext.tsx) and TrackerView                *)

\* the ids uuidv4() hands out, in the order it hands them out
HabitIds == <<"h1">>

\* the first day of the run: Wednesday 2025-01-01
StartDay == Day0 + 2

\* times the clock moves on during a run
MaxTicks == 1

\* the minutes of a day at which the clock is looked at: 05:59 and 06:00
ClockMinutes == <<359, 360>>

\* the day cells the tracker can show during the run
CellDates == {formatDate(StartDay + k) : k \in (0 - 2)..((MaxTicks \div 2) + 1)}

\* the moves the clock has made
ticks == Len(ClockMinutes) * (now.day - StartDay)
         + (CHOOSE i \in DOMAIN ClockMinutes : ClockMinutes[i] = now.minute) - 1

\* what the habit form offers
FormTypes == {"binary", "numeric"}
FormGoals == {7, 70}

\* what can be typed into a numeric cell
Texts == {"", "1"}

\* parseFloat(pendingValue) || 0
parseFloatOr0(text) == IF text = "1" THEN 1 ELSE 0

\* the files importFromJSON is given: an export of one habit with one entry
\* that carries its target, a file holding that day twice under two ids, and
\* a file whose habit is archived
ImportStamp == Noon(Day0 - 7)
ImportHabit == mkHabit(HabitIds[1], "numeric", 70, ImportStamp, 0)
ImportDate == formatDate(StartDay - 1)
ImportEntry(id, value, target) ==
    [mkEntry(HabitIds[1], ImportDate, value, target, ImportStamp) EXCEPT !.id = id]
ImportFiles ==
    {[habits  |-> <<ImportHabit>>,
      entries |-> <<ImportEntry(entryId(HabitIds[1], ImportDate), 8, 10)>>],
     [habits  |-> <<ImportHabit>>,
      entries |-> <<ImportEntry(entryId("copy1", ImportDate), 1, Undefined),
                    ImportEntry(entryId("copy2", ImportDate), 8, Undefined)>>],
     [habits  |-> <<[ImportHabit EXCEPT !.archived = TRUE]>>,
      entries |-> <<ImportEntry(entryId(HabitIds[1], ImportDate), 8, 10)>>]}

isUsingLocalStorage == ~isFirebaseConfigured \/ currentUserId = NoUser

\* the friend whose dashboard can be opened, and what that friend has stored:
\* one habit with one entry, written before the run begins
FriendId == "u2"
FriendHabitDocs ==
    Put(EmptyMap, "f1", mkHabit("f1", "binary", 7, ImportStamp, 0))
FriendEntryDocs ==
    Put(EmptyMap, entryId("f1", ImportDate), mkEntry("f1", ImportDate, 1, Undefined, ImportStamp))

\* viewingUserId !== null && viewingUserId !== currentUserId
isViewingFriendOf(viewing) == viewing # NoUser /\ viewing # currentUserId
isViewingFriend == isViewingFriendOf(viewingUserId)

\* subscribeToFriendHabits: query(habitsRef, orderBy('order', 'asc'))
subscribeToFriendHabits(docs) == subscribeToHabits(docs)

\* getFriendEntries, subscribeToFriendEntries: the documents of the collection
getFriendEntries(docs) == getAllEntries(docs)

\* the habits the subscription callback hands to setHabits while the
\* dashboard of `viewing` is shown
habitsFor(viewing, data, docs) ==
    IF isUsingLocalStorage THEN subscribeToHabitsLocal(data)
    ELSE IF isViewingFriendOf(viewing) THEN subscribeToFriendHabits(friendHabits)
    ELSE subscribeToHabits(docs)

subscribedHabits(data, docs) == habitsFor(viewingUserId, data, docs)

\* loadAllEntries: the entries handed to setAllEntries
entriesFor(viewing, data, docs) ==
    IF isUsingLocalStorage THEN getAllEntriesLocal(data)
    ELSE IF isViewingFriendOf(viewing) THEN getFriendEntries(friendEntries)
    ELSE getAllEntries(docs)

loadAllEntries(data, docs) == entriesFor(viewingUserId, data, docs)

\* the entries of the store in use, as the week subscription delivers them
storedEntries ==
    IF isUsingLocalStorage THEN localData.entries
    ELSE IF isViewingFriend THEN getFriendEntries(friendEntries)
    ELSE getAllEntries(userEntries)

storedHabitIds ==
    IF isUsingLocalStorage THEN {localData.habits[i].id : i \in DOMAIN localData.habits}
    ELSE DOMAIN userHabits

\* entries.find(e => e.habitId === habitId && e.date === date)?.value || 0
getEntryValue(habitId, date) ==
    LET index == findEntryIndex(storedEntries, habitId, date)
    IN  IF index = 0 THEN 0 ELSE storedEntries[index].value

\* weekStart of the context, the week the tracker displays:
\* useState(getWeekStart(new Date())), not navigated
displayedWeekStart == getWeekStart(StartDay)

isCurrentWeekView == formatDate(displayedWeekStart) = formatDate(getWeekStart(now.day))

\* daysOfWeek.findIndex(d => d.date === today) + 1, or 7 for another week
todayIndex ==
    IF isCurrentWeekView
    THEN IF now.day \in getWeekDates(displayedWeekStart) THEN now.day - displayedWeekStart + 1 ELSE 0
    ELSE 7

\* daysOfWeek.reduce((total, day) => total + getEntryValue(habitId, day.date), 0)
getWeeklyTotal(habitId) ==
    LET RECURSIVE Reduce(_)
        Reduce(day) == IF day > getWeekEnd(displayedWeekStart) THEN 0
                       ELSE getEntryValue(habitId, formatDate(day)) + Reduce(day + 1)
    IN  Reduce(displayedWeekStart)

getPacingStatus(habit) ==
    LET current    == getWeeklyTotal(habit.id)
        weeklyGoal == habit.weeklyGoal
        difference == 7 * current - weeklyGoal * todayIndex
    IN  IF current >= weeklyGoal THEN "complete"
        ELSE IF habit.type = "binary"
             THEN IF difference >= 0 THEN "on-track"
                  ELSE IF difference >= 0 - 7 THEN "warning"
                  ELSE "behind"
             ELSE IF difference >= 0 THEN "on-track"
                  ELSE IF difference >= 0 - weeklyGoal THEN "warning"
                  ELSE "behind"

\* TrackerView render: disabled={!isDateEditable(day.date)}
renderedCells == {d \in CellDates : isDateEditable(d)}

Init ==
    /\ now = [day |-> StartDay, minute |-> ClockMinutes[1]]
    /\ \/ isFirebaseConfigured = FALSE /\ currentUserId = NoUser
       \/ isFirebaseConfigured = TRUE /\ currentUserId = "u1"
    /\ localData = [habits |-> << >>, entries |-> << >>]
    /\ userEntries = EmptyMap
    /\ userHabits = EmptyMap
    /\ habits = << >>
    /\ allEntries = << >>
    /\ pendingValues = EmptyMap
    /\ enabledCells = renderedCells
    /\ viewingUserId = NoUser
    /\ friendHabits = (IF isFirebaseConfigured THEN FriendHabitDocs ELSE EmptyMap)
    /\ friendEntries = (IF isFirebaseConfigured THEN FriendEntryDocs ELSE EmptyMap)
    /\ inFlight = << >>
    /\ out = NoOutput

\* the stores of the friend are written by the friend alone
friendVars == <<friendHabits, friendEntries>>

fixedVars == <<now, isFirebaseConfigured, currentUserId, viewingUserId, friendVars,
               inFlight, out>>

\* the clock moves on to the next instant looked at
Tick ==
    /\ ticks < MaxTicks
    /\ \/ \E i \in 1..(Len(ClockMinutes) - 1) :
             /\ now.minute = ClockMinutes[i]
             /\ now' = [now EXCEPT !.minute = ClockMinutes[i + 1]]
       \/ /\ now.minute = ClockMinutes[Len(ClockMinutes)]
          /\ now' = [day |-> now.day + 1, minute |-> ClockMinutes[1]]
    /\ UNCHANGED <<isFirebaseConfigured, currentUserId, localData, userEntries,
                   userHabits, habits, allEntries, pendingValues, enabledCells,
                   viewingUserId, friendVars, inFlight, out>>

\* TrackerView renders again for a reason of its own (navigation, a parent)
Render ==
    /\ enabledCells # renderedCells
    /\ enabledCells' = renderedCells
    /\ UNCHANGED <<now, isFirebaseConfigured, currentUserId, localData, userEntries,
                   userHabits, habits, allEntries, pendingValues,
                   viewingUserId, friendVars, inFlight, out>>

\* the ids a stored habit, a stored entry or a loaded entry carries
usedIds ==
    storedHabitIds \cup {storedEntries[i].habitId : i \in DOMAIN storedEntries}
                   \cup {allEntries[i].habitId : i \in DOMAIN allEntries}

\* the first id not in use

uuidv4 ==
    HabitIds[CHOOSE k \in DOMAIN HabitIds :
                /\ HabitIds[k] \notin usedIds
                /\ \A j \in 1..(k - 1) : HabitIds[j] \in usedIds]

\* throw new Error(message): the call ends before it touches anything
Throws(fn, message) ==
    /\ out' = [fn |-> fn, error |-> message]
    /\ UNCHANGED storeVars

\* if (isViewingFriend) return;
Returns == UNCHANGED vars

addHabit(id, type, weeklyGoal) ==
    IF isViewingFriend THEN Throws("addHabit", "Cannot edit a friend's habits") ELSE
    LET newHabit == mkHabit(id, type, weeklyGoal, now, Len(habits))
    IN  /\ IF isUsingLocalStorage
           THEN /\ localData' = createHabitLocal(localData, newHabit)
                /\ UNCHANGED userHabits
           ELSE /\ userHabits' = createHabit(userHabits, newHabit)
                /\ UNCHANGED localData
        /\ habits' = subscribedHabits(localData', userHabits')
        /\ enabledCells' = renderedCells
        /\ UNCHANGED <<userEntries, allEntries, pendingValues>>
        /\ UNCHANGED fixedVars

\* the form is submitted for a new habit; uuidv4() gives an id never used before
AddHabit ==
    /\ pendingValues = EmptyMap
    /\ \E k \in DOMAIN HabitIds : HabitIds[k] \notin usedIds
    /\ \E type \in FormTypes, weeklyGoal \in FormGoals :
          addHabit(uuidv4, type, weeklyGoal)

editHabit(habitId, updates) ==
    IF isViewingFriend THEN Throws("editHabit", "Cannot edit a friend's habits") ELSE
    /\ IF isUsingLocalStorage
       THEN /\ localData' = updateHabitLocal(localData, habitId, updates)
            /\ UNCHANGED userHabits
       ELSE /\ userHabits' = updateHabit(userHabits, habitId, updates)
            /\ UNCHANGED localData
    /\ habits' = subscribedHabits(localData', userHabits')
    /\ enabledCells' = renderedCells
    /\ UNCHANGED <<userEntries, allEntries, pendingValues>>
    /\ UNCHANGED fixedVars

\* the form is submitted for a habit on display, with another weekly goal
EditHabit ==
    /\ pendingValues = EmptyMap
    /\ \E k \in DOMAIN habits, weeklyGoal \in FormGoals :
          /\ weeklyGoal # habits[k].weeklyGoal
          /\ editHabit(habits[k].id, [weeklyGoal |-> weeklyGoal])

removeHabit(habitId) ==
    IF isViewingFriend THEN Throws("removeHabit", "Cannot delete a friend's habits") ELSE
    /\ IF isUsingLocalStorage
       THEN /\ localData' = deleteHabitLocal(localData, habitId)
            /\ UNCHANGED userHabits
       ELSE /\ userHabits' = deleteHabit(userHabits, habitId)
            /\ UNCHANGED localData
    /\ habits' = subscribedHabits(localData', userHabits')
    /\ enabledCells' = renderedCells
    /\ UNCHANGED <<userEntries, allEntries, pendingValues>>
    /\ UNCHANGED fixedVars

RemoveHabit ==
    /\ pendingValues = EmptyMap
    /\ \E k \in DOMAIN habits : removeHabit(habits[k].id)

\* the store part of updateEntry: the write, then loadAllEntries
updateEntry(habitId, date, value) ==
    IF isViewingFriend THEN Throws("updateEntry", "Cannot edit a friend's entries") ELSE
    LET entry == mkEntry(habitId, date, value, Undefined, now)
    IN  /\ IF isUsingLocalStorage
           THEN /\ localData' = upsertEntryLocal(localData, entry)
                /\ UNCHANGED userEntries
           ELSE /\ userEntries' = upsertEntry(userEntries, entry)
                /\ UNCHANGED localData
        /\ Len(loadAllEntries(localData', userEntries')) <= MaxStored
        /\ allEntries' = loadAllEntries(localData', userEntries')
        /\ enabledCells' = renderedCells
        /\ UNCHANGED <<userHabits, habits>>
        /\ UNCHANGED fixedVars

\* a click on an enabled binary cell
toggleBinary(habitId, date) ==
    /\ updateEntry(habitId, date, IF getEntryValue(habitId, date) = 1 THEN 0 ELSE 1)
    /\ UNCHANGED pendingValues

ToggleBinary ==
    /\ pendingValues = EmptyMap
    /\ \E k \in DOMAIN habits, date \in enabledCells :
          /\ habits[k].type = "binary"
          /\ toggleBinary(habits[k].id, date)

\* typing into an enabled numeric cell; one input has the focus at a time
handleNumericInputChange(habitId, date, inputValue) ==
    /\ DOMAIN pendingValues \subseteq {<<habitId, date>>}
    /\ pendingValues' = Put(pendingValues, <<habitId, date>>, inputValue)
    /\ enabledCells' = renderedCells
    /\ UNCHANGED <<localData, userEntries, userHabits, habits, allEntries>>
    /\ UNCHANGED fixedVars

NumericInputChange ==
    \E k \in DOMAIN habits, date \in enabledCells, inputValue \in Texts :
        /\ habits[k].type = "numeric"
        /\ handleNumericInputChange(habits[k].id, date, inputValue)

\* the focused input loses the focus: the pending value is committed
handleNumericInputBlur(habitId, date) ==
    LET key == <<habitId, date>>
    IN  /\ key \in DOMAIN pendingValues
        /\ updateEntry(habitId, date, parseFloatOr0(pendingValues[key]))
        \* the lines after the await are not reached when updateEntry throws
        /\ isViewingFriend \/ pendingValues' = Remove(pendingValues, {key})

NumericInputBlur ==
    \E k \in DOMAIN habits, date \in enabledCells :
        handleNumericInputBlur(habits[k].id, date)

\* weekStart is the week on display, here the current one
resetCurrentWeek ==
    IF isViewingFriend THEN Returns ELSE
    LET weekStartStr == formatDate(getWeekStart(now.day))
        weekEndStr   == formatDate(getWeekEnd(now.day))
    IN  /\ IF isUsingLocalStorage
           THEN /\ localData' = resetWeekDataLocal(localData, weekStartStr, weekEndStr)
                /\ UNCHANGED userEntries
           ELSE /\ userEntries' = resetWeekData(userEntries, weekStartStr, weekEndStr)
                /\ UNCHANGED localData
        /\ enabledCells' = renderedCells
        /\ UNCHANGED <<userHabits, habits, allEntries, pendingValues>>
        /\ UNCHANGED fixedVars

ResetCurrentWeek ==
    /\ pendingValues = EmptyMap
    /\ storedEntries # << >>
    /\ resetCurrentWeek

\* mutant: the import does not look at isViewingFriend
importFromJSON_Unguarded(data) ==
    /\ IF isUsingLocalStorage
       THEN /\ localData' = importDataLocal(localData, data.habits, data.entries)
            /\ UNCHANGED <<userHabits, userEntries>>
       ELSE /\ userHabits' = batchSet(userHabits, data.habits)
            /\ userEntries' = batchSet(userEntries, data.entries)
            /\ UNCHANGED localData
    /\ Len(loadAllEntries(localData', userEntries')) <= MaxStored
    /\ habits' = subscribedHabits(localData', userHabits')
    /\ allEntries' = loadAllEntries(localData', userEntries')
    /\ enabledCells' = renderedCells
    /\ UNCHANGED pendingValues
    /\ UNCHANGED fixedVars

importFromJSON(data) ==
    IF isViewingFriend THEN Returns ELSE
    /\ IF isUsingLocalStorage
       THEN /\ localData' = importDataLocal(localData, data.habits, data.entries)
            /\ UNCHANGED <<userHabits, userEntries>>
       ELSE /\ userHabits' = batchSet(userHabits, data.habits)
            /\ userEntries' = batchSet(userEntries, data.entries)
            /\ UNCHANGED localData
    /\ Len(loadAllEntries(localData', userEntries')) <= MaxStored
    /\ habits' = subscribedHabits(localData', userHabits')
    /\ allEntries' = loadAllEntries(localData', userEntries')
    /\ enabledCells' = renderedCells
    /\ UNCHANGED pendingValues
    /\ UNCHANGED fixedVars

ImportFromJSON ==
    /\ pendingValues = EmptyMap
    /\ \E data \in ImportFiles : importFromJSON(data)

clearAllData ==
    IF isViewingFriend THEN Returns ELSE
    /\ IF isUsingLocalStorage
       THEN /\ localData' = deleteAllHabitsLocal
            /\ UNCHANGED userHabits
       ELSE /\ userHabits' = deleteAllHabits(userHabits)
            /\ UNCHANGED localData
    /\ habits' = subscribedHabits(localData', userHabits')
    /\ enabledCells' = renderedCells
    /\ UNCHANGED <<userEntries, allEntries, pendingValues>>
    /\ UNCHANGED fixedVars

ClearAllData ==
    /\ pendingValues = EmptyMap
    /\ storedHabitIds # {} \/ storedEntries # << >>
    /\ clearAllData

clearAllEntries ==
    IF isViewingFriend THEN Returns ELSE
    /\ IF isUsingLocalStorage
       THEN /\ localData' = deleteAllEntriesLocal(localData)
            /\ UNCHANGED userEntries
       ELSE /\ userEntries' = deleteAllEntries(userEntries)
            /\ UNCHANGED localData
    /\ allEntries' = loadAllEntries(localData', userEntries')
    /\ enabledCells' = renderedCells
    /\ UNCHANGED <<userHabits, habits, pendingValues>>
    /\ UNCHANGED fixedVars

ClearAllEntries ==
    /\ pendingValues = EmptyMap
    /\ storedEntries # << >>
    /\ clearAllEntries

Next ==
    \/ Tick
    \/ Render
    \/ AddHabit
    \/ EditHabit
    \/ RemoveHabit
    \/ ToggleBinary
    \/ NumericInputChange
    \/ NumericInputBlur
    \/ ResetCurrentWeek
    \/ ImportFromJSON
    \/ ClearAllData
    \/ ClearAllEntries

Spec == Init /\ [][Next]_vars

----------------------------------------------------------------------------
(* The operations of the context with the friends panel, at one instant:   *)
(* a dashboard of another user can be opened and left, and the developer   *)
(* tool generateFakeData is at hand.  The guard on isViewingFriend does    *)
(* not read the clock.                                                     *)

\* the users whose dashboard setViewingUser can be given: nobody (back to
\* one's own), oneself, the friend
Viewable == {NoUser, "u1", FriendId}

\* setViewingUserId(userId); the habit subscription and loadAllEntries run
\* again with the new user
setViewingUser(userId) ==
    /\ viewingUserId' = userId
    /\ habits' = habitsFor(userId, localData, userHabits)
    /\ allEntries' = entriesFor(userId, localData, userEntries)
    /\ enabledCells' = renderedCells
    /\ UNCHANGED <<now, isFirebaseConfigured, currentUserId, localData, userEntries,
                   userHabits, pendingValues, friendVars, inFlight, out>>

SetViewingUser ==
    /\ pendingValues = EmptyMap
    /\ \E userId \in Viewable \ {viewingUserId} : setViewingUser(userId)

\* the outcomes of Math.random() looked at, in hundredths: completionChance
\* below 0.15, below 0.3 and above, and 0.5 for the variance
FakeChances == {10, 20, 90}
FakeVariance == 50

\* Math.round(n / d) for n >= 0
roundOfQuotient(n, d) == (2 * n + d) \div (2 * d)

\* the value drawn for one habit and one day; dailyGoal * (0.8 + 0.5 * 0.4)
\* and dailyGoal * (0.3 + 0.5 * 0.4) are exact products in binary64 for the
\* goals of the run
fakeValue(habit, chance) ==
    IF habit.type = "binary" THEN (IF chance > 30 THEN 1 ELSE 0)
    ELSE IF chance > 30
         THEN roundOfQuotient(habit.weeklyGoal * (80 + (FakeVariance * 40) \div 100), 700)
    ELSE IF chance > 15
         THEN roundOfQuotient(habit.weeklyGoal * (30 + (FakeVariance * 40) \div 100), 700)
    ELSE 0

\* the loop over the habits for the one day of months = 0, on the local store
RECURSIVE fakeLocal(_, _, _)
fakeLocal(data, k, chances) ==
    IF k > Len(habits) THEN data
    ELSE IF fakeValue(habits[k], chances[k]) > 0
         THEN fakeLocal(upsertEntryLocal(data, mkEntry(habits[k].id, formatDate(now.day), fakeValue(habits[k], chances[k]), Undefined, now)), k + 1, chances)
         ELSE fakeLocal(data, k + 1, chances)

\* the same loop on the entries collection of the user
RECURSIVE fakeDocs(_, _, _)
fakeDocs(docs, k, chances) ==
    IF k > Len(habits) THEN docs
    ELSE IF fakeValue(habits[k], chances[k]) > 0
         THEN fakeDocs(upsertEntry(docs, mkEntry(habits[k].id, formatDate(now.day), fakeValue(habits[k], chances[k]), Undefined, now)), k + 1, chances)
         ELSE fakeDocs(docs, k + 1, chances)

\* generateFakeData(0): days is today alone
generateFakeData(chances) ==
    IF isViewingFriend THEN Returns ELSE
    /\ IF isUsingLocalStorage
       THEN /\ localData' = fakeLocal(localData, 1, chances)
            /\ UNCHANGED userEntries
       ELSE /\ userEntries' = fakeDocs(userEntries, 1, chances)
            /\ UNCHANGED localData
    /\ Len(loadAllEntries(localData', userEntries')) <= MaxStored
    /\ allEntries' = loadAllEntries(localData', userEntries')
    /\ enabledCells' = renderedCells
    /\ UNCHANGED <<userHabits, habits, pendingValues>>
    /\ UNCHANGED fixedVars

GenerateFakeData ==
    /\ pendingValues = EmptyMap
    /\ habits # << >>
    /\ \E chances \in [DOMAIN habits -> FakeChances] : generateFakeData(chances)

NextFriend ==
    \/ AddHabit
    \/ EditHabit
    \/ RemoveHabit
    \/ ToggleBinary
    \/ NumericInputChange
    \/ NumericInputBlur
    \/ ResetCurrentWeek
    \/ ImportFromJSON
    \/ ClearAllData
    \/ ClearAllEntries
    \/ SetViewingUser
    \/ GenerateFakeData

SpecFriend == Init /\ [][NextFriend]_vars

----------------------------------------------------------------------------
(* The edit window as the clock moves: isDateEditable is asked for every   *)
(* date of a window at the instants 00:00, 05:59, 06:00 and 23:59 of the   *)
(* days from 2024-12-24 on, across the turn of the year.                   *)

\* the days the clock runs over
MaxClockDays == 26
ClockStart == Day0 - 6
ClockInstants == <<0, 359, 360, 1439>>

\* the dates asked about: the days of the run, two before and two after
ClockDates == {formatDate(ClockStart + k) : k \in (0 - 2)..(MaxClockDays + 2)}

\* isDateEditable(d) for every date asked about, as a set
editableDates == {d \in ClockDates : isDateEditable(d)}

InitClock ==
    /\ now = [day |-> ClockStart, minute |-> ClockInstants[1]]
    /\ InertStore
    /\ habits = << >>
    /\ allEntries = << >>
    /\ out = [fn |-> "isDateEditable", val |-> editableDates]

\* the clock reaches the next instant and the dates are asked about again
AdvanceClock ==
    /\ \/ \E i \in 1..(Len(ClockInstants) - 1) :
             /\ now.minute = ClockInstants[i]
             /\ now' = [now EXCEPT !.minute = ClockInstants[i + 1]]
       \/ /\ now.minute = ClockInstants[Len(ClockInstants)]
          /\ now.day < ClockStart + MaxClockDays - 1
          /\ now' = [day |-> now.day + 1, minute |-> ClockInstants[1]]
    /\ out' = [fn |-> "isDateEditable", val |-> editableDates']
    /\ UNCHANGED <<isFirebaseConfigured, currentUserId, localData, userEntries,
                   userHabits, habits, allEntries, pendingValues, enabledCells,
                   viewingUserId, friendVars, inFlight>>

SpecClock == InitClock /\ [][AdvanceClock]_vars

----------------------------------------------------------------------------
(* updateEntry step by step.  Signed in, the call awaits setDoc, then       *)
(* loadAllEntries awaits getDocs and hands the documents to setAllEntries:  *)
(* three promises of the network per call, and the promises of different    *)
(* calls settle in any order.  Not signed in, the adapter's promises are    *)
(* settled when they are made, the continuations run as microtasks before   *)
(* the next event is handled, and the call is one step.                     *)

\* the calls of a run
MaxCalls == 2

\* the cells clicked and the values they are given
AsyncDates == {formatDate(StartDay), formatDate(StartDay - 1)}
AsyncValues == {0, 1}

AsyncHabit == mkHabit(HabitIds[1], "binary", 7, ImportStamp, 0)

InitAsync ==
    /\ now = [day |-> StartDay, minute |-> ClockMinutes[1]]
    /\ \/ /\ isFirebaseConfigured = FALSE /\ currentUserId = NoUser
          /\ localData = [habits |-> <<AsyncHabit>>, entries |-> << >>]
          /\ userHabits = EmptyMap
       \/ /\ isFirebaseConfigured = TRUE /\ currentUserId = "u1"
          /\ localData = [habits |-> << >>, entries |-> << >>]
          /\ userHabits = createHabit(EmptyMap, AsyncHabit)
    /\ userEntries = EmptyMap
    /\ habits = <<AsyncHabit>>
    /\ allEntries = << >>
    /\ pendingValues = EmptyMap
    /\ enabledCells = renderedCells
    /\ viewingUserId = NoUser
    /\ friendHabits = EmptyMap
    /\ friendEntries = EmptyMap
    /\ inFlight = << >>
    /\ out = NoOutput

asyncFixed == <<now, isFirebaseConfigured, currentUserId, userHabits, habits,
                pendingValues, enabledCells, viewingUserId, friendVars, out>>

\* the call at position pc with the documents its getDocs has brought
callAt(entry, pc, fetched) == [entry |-> entry, pc |-> pc, fetched |-> fetched]

\* updateEntry(habitId, date, value) is called: the entry is built and the
\* write is handed to the adapter
BeginUpdateEntry ==
    /\ Len(inFlight) < MaxCalls
    /\ \E date \in AsyncDates, value \in AsyncValues :
          LET entry == mkEntry(HabitIds[1], date, value, Undefined, now)
          IN  IF isUsingLocalStorage
              THEN /\ localData' = upsertEntryLocal(localData, entry)
                   /\ allEntries' = getAllEntriesLocal(localData')
                   /\ inFlight' = Append(inFlight, callAt(entry, "done", << >>))
                   /\ UNCHANGED userEntries
              ELSE /\ inFlight' = Append(inFlight, callAt(entry, "setDoc", << >>))
                   /\ UNCHANGED <<localData, userEntries, allEntries>>
    /\ UNCHANGED asyncFixed

\* await upsertEntry(currentUserId, entry) is over: the document is written,
\* and loadAllEntries sends its getDocs
SettleUpsertEntry ==
    \E c \in DOMAIN inFlight :
        /\ inFlight[c].pc = "setDoc"
        /\ userEntries' = upsertEntry(userEntries, inFlight[c].entry)
        /\ inFlight' = [inFlight EXCEPT ![c].pc = "getDocs"]
        /\ UNCHANGED <<localData, allEntries>>
        /\ UNCHANGED asyncFixed

\* the server answers the getDocs of a call with the documents it holds
AnswerGetDocs ==
    \E c \in DOMAIN inFlight :
        /\ inFlight[c].pc = "getDocs"
        /\ inFlight' = [inFlight EXCEPT ![c].pc = "setAllEntries",
                                        ![c].fetched = getAllEntries(userEntries)]
        /\ UNCHANGED <<localData, userEntries, allEntries>>
        /\ UNCHANGED asyncFixed

\* the answer arrives: fetchedEntries = await getAllEntries(currentUserId);
\* setAllEntries(fetchedEntries)
SetAllEntries ==
    \E c \in DOMAIN inFlight :
        /\ inFlight[c].pc = "setAllEntries"
        /\ allEntries' = inFlight[c].fetched
        /\ inFlight' = [inFlight EXCEPT ![c].pc = "done"]
        /\ UNCHANGED <<localData, userEntries>>
        /\ UNCHANGED asyncFixed

NextAsync ==
    \/ BeginUpdateEntry
    \/ SettleUpsertEntry
    \/ AnswerGetDocs
    \/ SetAllEntries

SpecAsync == InitAsync /\ [][NextAsync]_vars

----------------------------------------------------------------------------
(* Claims about the store                                                  *)

\* the stored entries of one calendar date
EntriesOn(date) ==
    {storedEntries[i] : i \in {j \in DOMAIN storedEntries : storedEntries[j].date = date}}

IsUpdateEntryStep == ToggleBinary \/ NumericInputBlur

\* C3: for every date d on display and every instant of the clock,
\* isDateEditable(d) is false when d is after today, true when d is today,
\* true for yesterday exactly when the local time is before 06:00 (true at
\* 05:59, false at 06:00), and false for every earlier date.
C3_EditWindow ==
    \A d \in CellDates :
        LET n == parseISO(d)
        IN  isDateEditable(d) <=>
                \/ n = now.day
                \/ n = now.day - 1 /\ now.minute < 6 * 60

\* the tracker rendered at 06:00: today's cell is enabled, yesterday's is
\* not, and yesterday holds an entry written while it was still editable
C3_Witness ==
    /\ now.minute = 6 * 60
    /\ enabledCells = {formatDate(now.day)}
    /\ isDateEditable(formatDate(now.day))
    /\ ~isDateEditable(formatDate(now.day - 1))
    /\ \E e \in EntriesOn(formatDate(now.day - 1)) :
          e.createdAt = [day |-> now.day, minute |-> 359]

\* C4: updateEntry never creates or changes the stored entry of a date for
\* which isDateEditable is false at the moment of the write, also when the
\* cell was enabled, or the value typed, while the date was still editable.
C4_WritePathHonoursGate ==
    [][IsUpdateEntryStep =>
          \A d \in CellDates : EntriesOn(d)' # EntriesOn(d) => isDateEditable(d)]_vars

\* the entry was logged through updateEntry: imports carry ImportStamp
LoggedThroughUpdateEntry(e) == e.createdAt # ImportStamp /\ e.targetAtEntry = Undefined

\* the stored entries logged through updateEntry
loggedEntries == SelectSeq(storedEntries, LoggedThroughUpdateEntry)

\* C6: when editHabit changes a habit's weeklyGoal, isEntryComplete of every
\* stored entry of the habit that was logged through updateEntry, and the
\* calculateHabitStreak result over those entries, stay what they were.
C6_GoalChangeKeepsHistory ==
    [][EditHabit =>
          \A k \in DOMAIN habits :
              LET id     == habits[k].id
                  before == habits[k]
                  after  == habitOf(habits', id)
              IN  /\ \A i \in DOMAIN loggedEntries :
                        loggedEntries[i].habitId = id =>
                            (isEntryComplete(loggedEntries[i], after)
                                <=> isEntryComplete(loggedEntries[i], before))
                  /\ calculateHabitStreak(id, after, loggedEntries)
                        = calculateHabitStreak(id, before, loggedEntries)]_vars

\* what upsertEntryLocal may do to the stored data for (habitId, date) when
\* the incoming entry carries no targetAtEntry
UpsertFrame(habitId, date) ==
    LET old   == localData.entries
        new   == localData'.entries
        index == findEntryIndex(old, habitId, date)
    IN  /\ localData'.habits = localData.habits
        /\ IF index # 0
           THEN /\ Len(new) = Len(old)
                /\ \A i \in DOMAIN old : i # index => new[i] = old[i]
                /\ new[index] = [old[index] EXCEPT !.value = new[index].value,
                                                   !.updatedAt = new[index].updatedAt]
           ELSE /\ Len(new) = Len(old) + 1
                /\ \A i \in DOMAIN old : new[i] = old[i]
                /\ new[Len(new)].habitId = habitId
                /\ new[Len(new)].date = date

\* C7: in local mode a write to a (habitId, date) that has a stored entry
\* changes only that entry's value and updatedAt (its id, habitId, date,
\* createdAt and stored targetAtEntry, every other entry and all habits stay),
\* and a write to a new (habitId, date) adds exactly one entry and nothing else.
C7_UpsertEntryLocalFrame ==
    [][\A k \in DOMAIN habits, date \in CellDates :
          /\ isUsingLocalStorage
          /\ \/ toggleBinary(habits[k].id, date)
             \/ handleNumericInputBlur(habits[k].id, date)
          => UpsertFrame(habits[k].id, date)]_vars

\* an imported entry that carries its target was updated at a later instant,
\* beside another entry
C7_Witness ==
    /\ isUsingLocalStorage
    /\ Len(localData.entries) = 2
    /\ \E i \in DOMAIN localData.entries :
          LET e == localData.entries[i]
          IN  /\ e.targetAtEntry = 10
              /\ e.createdAt = ImportStamp
              /\ e.updatedAt = now
              /\ e.value # 8

\* C8: in local mode and in Firestore mode alike, the store holds at most one
\* entry for each (habitId, date) pair.
C8_OneEntryPerHabitDate ==
    \A i, j \in DOMAIN storedEntries :
        /\ storedEntries[i].habitId = storedEntries[j].habitId
        /\ storedEntries[i].date = storedEntries[j].date
        => i = j

\* the part of C8 the local adapter keeps
LocalOneEntryPerHabitDate ==
    \A i, j \in DOMAIN localData.entries :
        /\ localData.entries[i].habitId = localData.entries[j].habitId
        /\ localData.entries[i].date = localData.entries[j].date
        => i = j

\* C22: whichever backend supplies the habits, the habit list the context
\* hands to the calculators holds no archived habit.
C22_NoArchivedHabit == \A k \in DOMAIN habits : ~habits[k].archived

\* C25: signed in, an updateEntry for a (habitId, date) that has a stored
\* entry changes that entry's value and updatedAt only: its createdAt and its
\* targetAtEntry are afterwards what they were.
C25_SecondUpdateKeepsFields ==
    [][IsUpdateEntryStep /\ ~isUsingLocalStorage =>
          \A id \in DOMAIN userEntries :
              /\ userEntries'[id].createdAt = userEntries[id].createdAt
              /\ userEntries'[id].targetAtEntry = userEntries[id].targetAtEntry]_vars

\* the stored entries that belong to none of the habits H
EntriesOutside(es, H) == {es[i] : i \in {j \in DOMAIN es : es[j].habitId \notin H}}

\* C30: after removeHabit(h) the store in use, localStorage or Firestore,
\* holds no entry whose habitId is h, and the entries of the other habits
\* are what they were.
C30_RemoveHabitDeletesEntries ==
    [][RemoveHabit =>
          /\ EntriesOutside(storedEntries', storedHabitIds') = EntriesOutside(storedEntries', storedHabitIds)
          /\ EntriesOutside(storedEntries', storedHabitIds) = EntriesOutside(storedEntries, storedHabitIds)]_vars

----------------------------------------------------------------------------
(* Claims about the dashboard of a friend (checked under SpecFriend)       *)

\* what is stored: the user's localStorage and collections, and the friend's
stores == <<localData, userHabits, userEntries, friendHabits, friendEntries>>

\* the call ended with an error thrown by fn
Threw(fn) == out'.fn = fn /\ "error" \in DOMAIN out'

\* C29: while the dashboard of a friend is shown, no step writes to a store
\* of either user; addHabit, editHabit, removeHabit and updateEntry end
\* with an error, and resetCurrentWeek, importFromJSON, clearAllData,
\* clearAllEntries and generateFakeData return with nothing changed.
C29_FriendViewIsReadOnly ==
    [][isViewingFriend =>
          /\ UNCHANGED stores
          /\ AddHabit => Threw("addHabit")
          /\ EditHabit => Threw("editHabit")
          /\ RemoveHabit => Threw("removeHabit")
          /\ IsUpdateEntryStep => Threw("updateEntry")
          /\ (\/ ResetCurrentWeek \/ ImportFromJSON \/ ClearAllData
              \/ ClearAllEntries \/ GenerateFakeData) => UNCHANGED vars]_vars

\* signed in with a habit and an entry of one's own, the friend's dashboard
\* open, an edit of the friend's entry refused
C29_Witness ==
    /\ isViewingFriend
    /\ ~isUsingLocalStorage
    /\ userHabits # EmptyMap /\ userEntries # EmptyMap
    /\ out.fn = "updateEntry" /\ "error" \in DOMAIN out

\* not signed in, a user id given to setViewingUser, a removal refused
C29_WitnessLocal ==
    /\ isViewingFriend
    /\ isUsingLocalStorage
    /\ localData.habits # << >>
    /\ out.fn = "removeHabit" /\ "error" \in DOMAIN out

----------------------------------------------------------------------------
(* Claims about overlapping calls (checked under SpecAsync)                *)

\* every call that has begun has finished
AllFinished ==
    /\ inFlight # << >>
    /\ \A c \in DOMAIN inFlight : inFlight[c].pc = "done"

\* C27: when the updateEntry calls that overlapped have all finished,
\* allEntries holds exactly the entries that are in storage: the documents
\* of an earlier load do not replace those of a later one.
C27_LoadsDoNotOvertake ==
    AllFinished =>
        {allEntries[i] : i \in DOMAIN allEntries}
            = {storedEntries[i] : i \in DOMAIN storedEntries}

----------------------------------------------------------------------------
(* Claims about the edit window over time (checked under SpecClock)        *)

\* the instant t is at or after 06:00 of the day after day n
PastGrace(n, t) == t.day > n + 1 \/ (t.day = n + 1 /\ t.minute >= 6 * 60)

\* at the instant t, isDateEditable gave E: d is in E from the start of day d
\* up to 06:00 of the next day, and E has at most two dates, one from 06:00 on
WindowAt(t, E) ==
    /\ \A d \in ClockDates :
          d \in E <=> (parseISO(d) <= t.day /\ ~PastGrace(parseISO(d), t))
    /\ Cardinality(E) <= 2
    /\ getHours(t) >= 6 => Cardinality(E) = 1

\* from one instant to the next: a date becomes editable only as its day
\* begins, stops being editable only as its grace period ends, and a date of
\* the past that is locked stays locked
WindowMoves ==
    \A d \in ClockDates :
        /\ (d \notin out.val /\ d \in out'.val) =>
               (now.day < parseISO(d) /\ now'.day = parseISO(d))
        /\ (d \in out.val /\ d \notin out'.val) =>
               (~PastGrace(parseISO(d), now) /\ PastGrace(parseISO(d), now'))
        /\ (d \notin out.val /\ parseISO(d) <= now.day) => d \notin out'.val

\* C28: isDateEditable(d) is false before day d begins, true from then up
\* to but excluding 06:00 of day d+1, false afterwards; as the clock advances
\* it changes at most twice, a locked date of the past is never editable
\* again, and at any instant at most two dates are editable, exactly one
\* from 06:00 on.
C28_EditWindowOverTime ==
    /\ [](out.fn = "isDateEditable" => WindowAt(now, out.val))
    /\ [][out.fn = "isDateEditable" => WindowMoves]_vars

\* 06:00 after a day of the run: today alone is editable, yesterday is locked
C28_Witness ==
    /\ out.fn = "isDateEditable"
    /\ now.day > ClockStart /\ now.minute = 6 * 60
    /\ out.val = {formatDate(now.day)}

\* 05:59 of New Year's Day: 2024-12-31 and 2025-01-01 are both editable
C28_WitnessTwo ==
    /\ out.fn = "isDateEditable"
    /\ now = [day |-> parseISO(<<2025, 1, 1>>), minute |-> 359]
    /\ out.val = {<<2024, 12, 31>>, <<2025, 1, 1>>}

----------------------------------------------------------------------------
(* Claims about the weekly statistics (checked under SpecStats)            *)

IsWeeklyStats == out.fn = "calculateWeeklyStats"
IsOverallStats == out.fn = "calculateOverallStats"

\* the amount a Number of the result stands for, in hundredths
Hundredths(x) == MathRound(NumTimes(x, 100))

\* the days of the week on or after the day the habit was created
ActiveCount(habit, weekStart) ==
    Cardinality({d \in weekStart..(weekStart + 6) : d >= habit.createdAt.day})

\* the days among them that are not after today
PassedCount(habit, weekStart) ==
    Cardinality({d \in weekStart..(weekStart + 6) :
                    d >= habit.createdAt.day /\ d <= now.day})

\* the sum of the habit's entry values dated within the week
WeekTotal(habit, weekStart) ==
    LET I == {i \in DOMAIN allEntries :
                 /\ allEntries[i].habitId = habit.id
                 /\ parseISO(allEntries[i].date) \in weekStart..(weekStart + 6)}
        RECURSIVE Sum(_)
        Sum(J) == IF J = {} THEN 0
                  ELSE LET i == CHOOSE j \in J : TRUE
                       IN  allEntries[i].value + Sum(J \ {i})
    IN  Sum(I)

C12_OnTrack ==
    IsWeeklyStats =>
        LET a == ActiveCount(out.habit, out.weekStart)
            p == PassedCount(out.habit, out.weekStart)
            w == out.habit.weeklyGoal
            t == WeekTotal(out.habit, out.weekStart)
            reachesExpected == IF p > 0 THEN 7 * t >= w * p ELSE t >= 0
            reachesGoal     == IF a > 0 THEN 7 * t >= w * a ELSE t >= w
        IN  out.val.isOnTrack <=> (reachesExpected \/ reachesGoal)

\* C13: completionPercentage is min(100, round(100 * total / goal)) when
\* goal > 0 and 0 when goal is 0, an integer from 0 to 100.  The goal is
\* w * a / 7 (w when a = 0), so 100 * total / goal is 700 * t / (w * a), and
\* round takes a half upwards.  A habit with weeklyGoal 14 and total 7 has 50.
C13_CompletionPercentage ==
    IsWeeklyStats =>
        LET a   == ActiveCount(out.habit, out.weekStart)
            w   == out.habit.weeklyGoal
            t   == WeekTotal(out.habit, out.weekStart)
            den == IF a > 0 THEN w * a ELSE 7 * w
            rounded == (1400 * t + den) \div (2 * den)
            pct == out.val.completionPercentage
        IN  /\ pct \in 0..100
            /\ den > 0 => pct = (IF rounded < 100 THEN rounded ELSE 100)
            /\ den = 0 => pct = 0

\* C14: for a habit whose weeklyGoal is zero or negative, calculateWeeklyStats
\* returns goal = 0 and completionPercentage = 0, whatever the entries and
\* the week, and never a negative number.
C14_NonPositiveWeeklyGoal ==
    IsWeeklyStats /\ out.habit.weeklyGoal <= 0 =>
        /\ out.val.goal.sign = 0
        /\ out.val.completionPercentage = 0

\* the habits created on or before the last day of the week
ExistingInWeek(weekStart) ==
    SelectSeq(habits, LAMBDA h : h.createdAt.day <= weekStart + 6)

\* C15: calculateOverallStats leaves a habit created after the week's last
\* day out of habitsOnTrack, overallCompletionPercentage, bestPerformingHabit
\* and needsAttentionHabit: apart from totalHabits, the result is the one the
\* habits that existed during the week give on their own.
C15_LaterHabitsLeftOut ==
    IsOverallStats =>
        LET alone == calculateOverallStats(ExistingInWeek(out.weekStart),
                                           allEntries, out.weekStart)
        IN  [out.val EXCEPT !.totalHabits = 0] = [alone EXCEPT !.totalHabits = 0]

\* the days of the week, not after today, on which a habit existed and every
\* habit that existed has a complete entry
PerfectDays(weekStart) ==
    {d \in weekStart..(weekStart + 6) :
        /\ d <= now.day
        /\ \E k \in DOMAIN habits : habits[k].createdAt.day <= d
        /\ \A k \in DOMAIN habits :
              habits[k].createdAt.day <= d =>
                  \E i \in DOMAIN allEntries :
                      /\ allEntries[i].habitId = habits[k].id
                      /\ parseISO(allEntries[i].date) = d
                      /\ isEntryComplete(allEntries[i], habits[k])}

\* C16: weeklyPerfectDays of calculateOverallStats counts exactly the days of
\* the week that are not in the future, on which at least one habit existed
\* by its creation day, and on which every habit that existed has an entry
\* satisfying isEntryComplete; the count lies between 0 and 7.
C16_WeeklyPerfectDays ==
    IsOverallStats =>
        /\ out.val.weeklyPerfectDays = Cardinality(PerfectDays(out.weekStart))
        /\ out.val.weeklyPerfectDays \in 0..7

\* a day is counted although the second habit, created later, has no entry
C16_Witness ==
    /\ IsOverallStats
    /\ Len(habits) = 2
    /\ out.val.weeklyPerfectDays >= 1
    /\ \E d \in PerfectDays(out.weekStart) : d < habits[2].createdAt.day

\* the statistics of the k-th habit for the week of the call
StatsOf(k) == calculateWeeklyStats(habits[k], allEntries, out.weekStart)

\* the habits the week's summary ranks: those with a goal in the week
Ranked == {k \in DOMAIN habits : StatsOf(k).goal.sign > 0}

\* the id of the habit of K with the highest completionPercentage, the
\* earliest in the habit array among equals; null for an empty K
Leader(K) ==
    IF K = {} THEN null
    ELSE habits[CHOOSE k \in K :
                    \A j \in K \ {k} :
                        \/ StatsOf(j).completionPercentage < StatsOf(k).completionPercentage
                        \/ /\ StatsOf(j).completionPercentage = StatsOf(k).completionPercentage
                           /\ k < j].id

C23_WitnessLaterLeads ==
    /\ IsOverallStats
    /\ out.val.bestPerformingHabit = "h2"
    /\ out.val.needsAttentionHabit = "h1"

\* no habit needs attention
C23_WitnessNull ==
    /\ IsOverallStats
    /\ Ranked # {}
    /\ out.val.needsAttentionHabit = null

\* the values an entry of the current week can be raised to
RaisedValues == {3, 6, 7}

\* the entries with the value of the i-th one raised to v
Raised(entries, i, v) == [entries EXCEPT ![i].value = v]

\* C26: with habits, today and the entries of earlier weeks as they are,
\* raising the value of an entry of the current week does not lower the
\* currentStreak of calculateOverallStreak; the days of complete prior weeks
\* stay counted when the current week reaches 80% of every goal.
C26_LoggingMoreKeepsStreak ==
    IsOverall =>
        \A i \in DOMAIN allEntries, v \in RaisedValues :
            (/\ getWeekStart(parseISO(allEntries[i].date)) = getWeekStart(now.day)
             /\ v > allEntries[i].value)
            => calculateOverallStreak(habits, Raised(allEntries, i, v)).currentStreak
                   >= out.val.currentStreak

----------------------------------------------------------------------------
(* Claims about the dashboard's streaks of one habit (checked under        *)
(* SpecCalc)                                                                *)

\* the days on which the habit has an entry with a value above zero
ActiveDays(habitId) ==
    {parseISO(allEntries[i].date) :
        i \in {j \in DOMAIN allEntries : /\ allEntries[j].habitId = habitId
                                         /\ allEntries[j].value > 0}}

\* C24: currentDailyStreak is the length of the run of consecutive days with
\* a value above zero that ends today or yesterday, 0 when neither day has
\* one; an older run behind a gap does not count.
C24_CurrentDailyStreak ==
    IsStreakData =>
        out.val.currentDailyStreak =
            IF now.day \in ActiveDays(out.habit.id)
            THEN RunEnding(ActiveDays(out.habit.id), now.day)
            ELSE RunEnding(ActiveDays(out.habit.id), now.day - 1)

----------------------------------------------------------------------------
(* Claims about the order of the entry array (checked under SpecTyped)     *)

OneEntryPerHabitDate(entries) ==
    \A i, j \in DOMAIN entries :
        i # j => ~(entries[i].habitId = entries[j].habitId
                   /\ entries[i].date = entries[j].date)

Reordered(entries, p) == [i \in DOMAIN entries |-> entries[p[i]]]

\* C21: with at most one entry per (habitId, date), every permutation of the
\* entry array gives the result the original order gives; stated here for
\* calculateWeeklyStats, the first of the calculators the claim names.
C21_OrderOfEntries ==
    IsWeeklyStats /\ OneEntryPerHabitDate(allEntries) =>
        \A p \in Permutations(DOMAIN allEntries) :
            calculateWeeklyStatsOfNumbers(out.habit, Reordered(allEntries, p),
                                          out.weekStart) = out.val

----------------------------------------------------------------------------
(* Claims about the pacing of the current week (checked under SpecCalc)    *)

\* the total of a habit's entries dated in the current week
CurrentWeekTotal(habitId) ==
    LET monday == now.day - ((now.day + 3) % 7)
        I == {i \in DOMAIN allEntries :
                 /\ allEntries[i].habitId = habitId
                 /\ parseISO(allEntries[i].date) \in monday..(monday + 6)}
        RECURSIVE Sum(_)
        Sum(J) == IF J = {} THEN 0
                  ELSE LET i == CHOOSE j \in J : TRUE
                       IN  allEntries[i].value + Sum(J \ {i})
    IN  Sum(I)

\* seven times difference = total - (weeklyGoal / 7) * dayOfWeek
SevenfoldDifference(habit) ==
    7 * CurrentWeekTotal(habit.id) - habit.weeklyGoal * DayOfWeek

\* seven times the margin of one day: 1 for a binary habit, weeklyGoal / 7 for a numeric one
SevenfoldMargin(habit) == IF habit.type = "binary" THEN 7 ELSE habit.weeklyGoal

Bucket(habit) ==
    CASE CurrentWeekTotal(habit.id) >= habit.weeklyGoal -> "on-track"
      [] OTHER ->
           CASE SevenfoldDifference(habit) >= 0 -> "on-track"
             [] SevenfoldDifference(habit) < 0
                /\ SevenfoldDifference(habit) >= 0 - SevenfoldMargin(habit) -> "warning"
             [] OTHER -> "behind"

\* C17: in calculateOverallStreak the bucket of a habit in the current week
\* is on-track when its week total >= weeklyGoal; otherwise, with
\* difference = total - (weeklyGoal / 7) * dayOfWeek, it is on-track when
\* difference >= 0, warning when difference >= -1 (binary) or
\* difference >= -(weeklyGoal / 7) (numeric), and behind in every other case.
\* With one habit the bucket is the weeklyStatus returned.
C17_HabitBucket ==
    IsOverall /\ Len(habits) = 1 => out.val.weeklyStatus = Bucket(habits[1])

\* a numeric habit more than 1 but less than a day's goal short: warning
C17_Witness ==
    /\ IsOverall
    /\ Len(habits) = 1
    /\ habits[1].type = "numeric"
    /\ SevenfoldDifference(habits[1]) < 0 - 7
    /\ out.val.weeklyStatus = "warning"

\* a binary habit within one day of its pace although beyond weeklyGoal / 7: warning
C17_WitnessBinary ==
    /\ IsOverall
    /\ Len(habits) = 1
    /\ habits[1].type = "binary"
    /\ SevenfoldDifference(habits[1]) < 0 - habits[1].weeklyGoal
    /\ out.val.weeklyStatus = "warning"

\* the buckets of the habits of the list
Buckets == {Bucket(habits[k]) : k \in DOMAIN habits}

C18_WitnessNoHabits ==
    /\ IsOverall
    /\ habits = << >>
    /\ out.val.weeklyStatus = "on-track"

\* the Mondays of the complete weeks
CompleteMondays == {parseISO(w) : w \in completeWeeks(habits, allEntries)}

\* the length of the longest run of complete weeks whose Mondays are 7 days apart
LongestWeekRun ==
    LET runs == {n \in 1..Cardinality(CompleteMondays) :
                    \E m \in CompleteMondays :
                        \A i \in 0..(n - 1) : m + 7 * i \in CompleteMondays}
    IN  IF runs = {} THEN 0 ELSE CHOOSE n \in runs : \A k \in runs : k <= n

\* C20: in the weekly-goal calculateOverallStreak, maxStreak is 7 times the
\* length of the longest run of consecutive complete weeks, and 0 when no
\* week is complete.
C20_MaxStreakOfCompleteWeeks ==
    IsOverall /\ habits # << >> => out.val.maxStreak = 7 * LongestWeekRun

\* C20 as amended: maxStreak is the larger of 7 times the longest run of
\* consecutive complete weeks and currentStreak.
C20_MaxStreakIncludesCurrent ==
    IsOverall /\ habits # << >> =>
        out.val.maxStreak = Max2(7 * LongestWeekRun, out.val.currentStreak)

\* one result where the current streak decides and one kind of state where
\* the complete weeks do, two of them apart and two of them adjacent
C20_Witness ==
    /\ IsOverall /\ habits # << >>
    /\ LongestWeekRun = 0
    /\ out.val.currentStreak > 0
    /\ out.val.maxStreak = out.val.currentStreak

C20_WitnessGap ==
    /\ IsOverall /\ habits # << >>
    /\ Cardinality(CompleteMondays) = 2
    /\ LongestWeekRun = 1
    /\ out.val.maxStreak = 7

C20_WitnessRun ==
    /\ IsOverall /\ habits # << >>
    /\ LongestWeekRun = 2
    /\ out.val.currentStreak < 14
    /\ out.val.maxStreak = 14

----------------------------------------------------------------------------
(* The tracker's pacing against the overall streak's (checked under Spec)  *)

\* the bucket calculateOverallStreak(habits, allEntries) gives the habit
StreakBucket(habit) ==
    pacingBucket(habit,
                 weeklyTotal(allEntries, formatDate(getWeekStart(now.day)), habit.id),
                 differenceInDays(now.day, getWeekStart(now.day)) + 1)

\* the tracker (entries of the week subscription) and the streak (allEntries)
\* are given the same entries
SameEntrySet ==
    {allEntries[i] : i \in DOMAIN allEntries}
        = {storedEntries[i] : i \in DOMAIN storedEntries}

\* C19: when the current week is displayed, the status TrackerView's
\* getPacingStatus returns for a habit, with 'complete' read as on-track, is
\* the bucket calculateOverallStreak assigns to that habit on the same
\* entries, so weeklyStatus is 'on-track' exactly when no habit is shown as
\* warning or behind.
C19_TrackerAgreesWithStreak ==
    isCurrentWeekView /\ SameEntrySet =>
        /\ \A k \in DOMAIN habits :
              (IF getPacingStatus(habits[k]) = "complete" THEN "on-track"
               ELSE getPacingStatus(habits[k])) = StreakBucket(habits[k])
        /\ habits # << >> =>
              (calculateOverallStreak(habits, allEntries).weeklyStatus = "on-track"
               <=> \A k \in DOMAIN habits :
                      getPacingStatus(habits[k]) \in {"complete", "on-track"})

====
